---- MODULE Spec2Model ----
(***************************************************************************)
(* A model of worship_journey.py: the normalization and matching pipeline  *)
(* (record consolidation, song tokenizing, name cleaning, comparison keys, *)
(* service building, publisher attribution).                               *)
(*                                                                         *)
(* Text is modelled as a sequence of characters.  A character is a one-    *)
(* character string; a character outside ASCII is written "uXXXX" after    *)
(* its code point (for instance "u7962" is the pronoun the code folds to). *)
(***************************************************************************)
EXTENDS Integers, Sequences, FiniteSets, TLC

VARIABLES
  pc,            \* position of the running call
  song,          \* clean_song_name: the raw fragment
  cleaned,       \* clean_song_name: the value returned
  text,          \* normalize_for_comparison: the argument
  key,           \* normalize_for_comparison(text)
  key2,          \* normalize_for_comparison(key)
  song_text,     \* split_combined_songs: the cell's text
  parts,         \* split_combined_songs: the fragments still to filter
  filtered,      \* split_combined_songs: the fragments kept so far
  reader,        \* load_csv_data: the rows of the file after its header
  rows,          \* load_csv_data: list(reader), padded in place as consolidated
  row_i,         \* consolidate_multiline_rows: rows consumed by its loop
  current_row,   \* consolidate_multiline_rows: the record in progress
  consolidated,  \* consolidate_multiline_rows: the records emitted
  load_i,        \* load_csv_data: consolidated rows consumed by its loop
  services,      \* load_csv_data: the service records built
  metadata,      \* the copyright metadata, in dict order: <<song, owner>>
  song_name,     \* map_song_to_copyright: the song
  copyright,     \* map_song_to_copyright: the value returned
  historical_songs_set,  \* the comparison keys of the songs sung before the report year
  year_services,         \* the statistics functions: the services of the report year
  leader_services,       \* calculate_leader_stats: <<leader, services>> in dict order
  leader_stats,          \* calculate_leader_stats: the stats of the leaders done
  global_stats,          \* calculate_global_stats: the value returned
  service_list,          \* count_worships_with_new_songs: the services to visit
  walk_i,                \* count_worships_with_new_songs: services visited
  seen_new_songs,        \* count_worships_with_new_songs: keys already counted
  worships_with_new,     \* count_worships_with_new_songs: services counted
  dates_with_new,        \* count_worships_with_new_songs: their dates and songs
  new_song_usage_stats,  \* calculate_new_song_usage_stats: <<bucket, result>> so far
  publisher_stats        \* calculate_publisher_stats: the value returned

cleanVars == <<song, cleaned>>
compareVars == <<text, key, key2>>
splitVars == <<song_text, parts, filtered>>
loadVars == <<reader, rows, row_i, current_row, consolidated, load_i, services>>
copyrightVars == <<metadata, song_name, copyright>>

walkVars == <<service_list, walk_i, seen_new_songs, worships_with_new, dates_with_new>>
statsVars ==
  <<historical_songs_set, year_services, leader_services, leader_stats, global_stats,
    walkVars, new_song_usage_stats, publisher_stats>>

vars == <<pc, cleanVars, compareVars, splitVars, loadVars, copyrightVars, statsVars>>

\* The variables of the other components, which a component leaves alone.
notClean == <<compareVars, splitVars, loadVars, copyrightVars, statsVars>>
notCompare == <<cleanVars, splitVars, loadVars, copyrightVars, statsVars>>
notSplit == <<cleanVars, compareVars, loadVars, copyrightVars, statsVars>>
notLoad == <<cleanVars, compareVars, splitVars, copyrightVars, statsVars>>
notCopyright == <<cleanVars, compareVars, splitVars, loadVars, statsVars>>
notStats == <<cleanVars, compareVars, splitVars, loadVars, copyrightVars, historical_songs_set>>

-----------------------------------------------------------------------------
(* Characters and the str methods the code uses.                           *)

\* Python's None, for the functions that return Optional[str]: a value that
\* is no text (its only element is not a character).
None == <<"None">>

\* Python truthiness of an Optional[str]: neither None nor the empty string.
Truthy(s) == s # None /\ s # <<>>

\* Characters str.split(), str.strip() and the regex class \s treat as space.
Whitespace == {" ", "\t", "u3000"}

IsSpace(c) == c \in Whitespace

UpperLetters ==
  <<"A", "B", "C", "D", "E", "F", "G", "H", "I", "J", "K", "L", "M",
    "N", "O", "P", "Q", "R", "S", "T", "U", "V", "W", "X", "Y", "Z">>

LowerLetters ==
  <<"a", "b", "c", "d", "e", "f", "g", "h", "i", "j", "k", "l", "m",
    "n", "o", "p", "q", "r", "s", "t", "u", "v", "w", "x", "y", "z">>

Range(f) == {f[i] : i \in DOMAIN f}

IsUpper(c) == c \in Range(UpperLetters)

\* The regex class [A-Za-z].
IsLetter(c) == c \in Range(UpperLetters) \cup Range(LowerLetters)

\* The regex class \d.
IsDigit(c) == c \in {"0", "1", "2", "3", "4", "5", "6", "7", "8", "9"}

\* Characters of the model's alphabet that the regex class \w rejects; every
\* other character (letters, digits, "_", Han characters) is a word character.
NonWordChars ==
  Whitespace \cup
  {"!", "\"", "&", "'", "(", ")", "+", ",", "-", ".", "/", ":", ";", "?",
   "u00a9", "u22ef", "u2f2f", "u2fb3", "ufe0f",
   "uff08", "uff09", "uff0c", "u3002", "uff1a", "uff01", "uff1f"}

IsWord(c) == c \notin NonWordChars

\* str.lower() on one character.
LowerChar(c) ==
  IF IsUpper(c)
    THEN LowerLetters[CHOOSE i \in DOMAIN UpperLetters : UpperLetters[i] = c]
    ELSE c

\* str.lower()
Lower(s) == [i \in 1..Len(s) |-> LowerChar(s[i])]

\* s[i:] starts with lit.
HasAt(s, i, lit) ==
  /\ i >= 1
  /\ i + Len(lit) - 1 <= Len(s)
  /\ SubSeq(s, i, i + Len(lit) - 1) = lit

\* s[i:] starts with lit, ignoring case (lit is given in lower case).
HasAtI(s, i, lit) ==
  /\ i >= 1
  /\ i + Len(lit) - 1 <= Len(s)
  /\ Lower(SubSeq(s, i, i + Len(lit) - 1)) = lit

\* The first index >= i of s that holds no whitespace (Len(s) + 1 if none):
\* where a greedy \s* or \s+ started at i ends.
RECURSIVE SkipSpace(_, _)
SkipSpace(s, i) ==
  IF i <= Len(s) /\ IsSpace(s[i]) THEN SkipSpace(s, i + 1) ELSE i

\* Where a greedy \d* or \d+ started at i ends.
RECURSIVE SkipDigits(_, _)
SkipDigits(s, i) ==
  IF i <= Len(s) /\ IsDigit(s[i]) THEN SkipDigits(s, i + 1) ELSE i

\* The last index <= i of s that holds no whitespace (0 if none).
RECURSIVE SkipSpaceBack(_, _)
SkipSpaceBack(s, i) ==
  IF i >= 1 /\ IsSpace(s[i]) THEN SkipSpaceBack(s, i - 1) ELSE i

\* str.strip()
Strip(s) == SubSeq(s, SkipSpace(s, 1), SkipSpaceBack(s, Len(s)))

\* str.rstrip(chars)
RECURSIVE RStrip(_, _)
RStrip(s, chars) ==
  IF Len(s) > 0 /\ s[Len(s)] \in chars
    THEN RStrip(SubSeq(s, 1, Len(s) - 1), chars)
    ELSE s

\* str.replace(old, new) for a non-empty old: every non-overlapping occurrence,
\* left to right.
RECURSIVE ReplaceFrom(_, _, _, _)
ReplaceFrom(s, i, old, new) ==
  IF i > Len(s) THEN <<>>
  ELSE IF HasAt(s, i, old) THEN new \o ReplaceFrom(s, i + Len(old), old, new)
  ELSE <<s[i]>> \o ReplaceFrom(s, i + 1, old, new)

Replace(s, old, new) == ReplaceFrom(s, 1, old, new)

\* ''.join(s.split()): all whitespace removed.
RemoveWhitespace(s) == SelectSeq(s, LAMBDA c : ~IsSpace(c))

\* ' '.join(s.split()): runs of whitespace collapsed to one space, ends trimmed.
RECURSIVE JoinWords(_, _)
JoinWords(s, i) ==
  IF i > Len(s) THEN <<>>
  ELSE IF IsSpace(s[i])
    THEN LET j == SkipSpace(s, i)
         IN  IF j > Len(s) THEN <<>> ELSE <<" ">> \o JoinWords(s, j)
    ELSE <<s[i]>> \o JoinWords(s, i + 1)

CollapseWhitespace(s) == JoinWords(s, SkipSpace(s, 1))

\* The least element of a set of indices, or 0 for the empty set: where the
\* leftmost match of a pattern starts.
Least(S) == IF S = {} THEN 0 ELSE CHOOSE i \in S : \A j \in S : i <= j

\* s with the match that starts at i and runs to the end of s removed (s when
\* i is 0: no match).
CutAt(s, i) == IF i = 0 THEN s ELSE SubSeq(s, 1, i - 1)

\* A text as Optional[str]: None for the empty text.
OrNone(s) == IF s # <<>> THEN s ELSE None

\* A list given by its element at every position, built once.
ListFrom(elements) == SubSeq(elements, 1, Len(elements))

\* The list of a text: empty for the empty text or None.
ListOf(s) == IF Truthy(s) THEN <<s>> ELSE <<>>

-----------------------------------------------------------------------------
(* The static tables of the program.                                       *)

\* The song-alias table, in dict order: <<raw variant, canonical name>>.
SONG_NAME_MAPPINGS ==
  <<
    <<<<"u623f", "u89d2", "u77f3", "u982d", "uff08", "C", "o", "r", "n", "e", "r", "s", "t", "o", "n", "e", "uff09">>,
      <<"C", "o", "r", "n", "e", "r", "s", "t", "o", "n", "e", " ", "u623f", "u89d2", "u57fa", "u77f3">>>>,
    <<<<"C", "o", "r", "n", "e", "r", "s", "t", "o", "n", "e">>,
      <<"C", "o", "r", "n", "e", "r", "s", "t", "o", "n", "e", " ", "u623f", "u89d2", "u57fa", "u77f3">>>>,
    <<<<"u623f", "u89d2", "u57fa", "u77f3">>,
      <<"C", "o", "r", "n", "e", "r", "s", "t", "o", "n", "e", " ", "u623f", "u89d2", "u57fa", "u77f3">>>>,
    <<<<"u552f", "u7368", "u5728", "u57fa", "u7763", "u88e1", " ", "(", "I", "n", " ", "C", "h", "r", "i", "s", "t", " ", "A", "l", "o", "n", "e", ")">>,
      <<"u552f", "u7368", "u5728", "u57fa", "u7763", "u88e1">>>>,
    <<<<"u5947", "u7570", "u6069", "u5178", " ", "A", "m", "a", "z", "i", "n", "g", " ", "G", "r", "a", "c", "e", " ", "(", "M", "y", " ", "C", "h", "a", "i", "n", "s", " ", "a", "r", "e", " ", "G", "o", "n", "e", ")">>,
      <<"u5947", "u7570", "u6069", "u5178", "uff08", "u9664", "u6389", "u56f0", "u9396", "uff09">>>>,
    <<<<"u5947", "u7570", "u6069", "u5178", "(", "u9664", "u6389", "u56f0", "u9396", ")">>,
      <<"u5947", "u7570", "u6069", "u5178", "uff08", "u9664", "u6389", "u56f0", "u9396", "uff09">>>>,
    <<<<"u737b", "u4e0a", "u980c", "u8b9a">>,
      <<"u737b", "u4e0a", "u980c", "u8b9a", " ", "(", "S", "h", "o", "u", "t", " ", "T", "o", " ", "T", "h", "e", " ", "L", "o", "r", "d", ")">>>>,
    <<<<"u737b", "u4e0a", "u980c", "u8b9a", " ", "S", "h", "o", "u", "t", " ", "t", "o", " ", "T", "h", "e", " ", "L", "o", "r", "d">>,
      <<"u737b", "u4e0a", "u980c", "u8b9a", " ", "(", "S", "h", "o", "u", "t", " ", "T", "o", " ", "T", "h", "e", " ", "L", "o", "r", "d", ")">>>>,
    <<<<"u737b", "u4e0a", "u980c", "u8b9a", " ", "S", "h", "o", "u", "t", " ", "t", "o", " ", "t", "h", "e", " ", "L", "o", "r", "d">>,
      <<"u737b", "u4e0a", "u980c", "u8b9a", " ", "(", "S", "h", "o", "u", "t", " ", "T", "o", " ", "T", "h", "e", " ", "L", "o", "r", "d", ")">>>>,
    <<<<"S", "h", "o", "u", "t", " ", "t", "o", " ", "T", "h", "e", " ", "L", "o", "r", "d", " ", "u737b", "u4e0a", "u980c", "u8b9a">>,
      <<"u737b", "u4e0a", "u980c", "u8b9a", " ", "(", "S", "h", "o", "u", "t", " ", "T", "o", " ", "T", "h", "e", " ", "L", "o", "r", "d", ")">>>>,
    <<<<"K", "i", "n", "g", " ", "o", "f", " ", "K", "i", "n", "g", "s", " ", "u842c", "u4ee3", "u541b", "u4e3b">>,
      <<"u842c", "u4ee3", "u541b", "u4e3b">>>>,
    <<<<"u6182", "u50b7", "u75db", "u6094", "u7684", "u9748">>,
      <<"u6182", "u6101", "u75db", "u6094", "u7684", "u9748">>>>,
    <<<<"u9858", "u60a8", "u5e73", "u5b89">>,
      <<"u9858", "u4f60", "u5e73", "u5b89">>>>,
    <<<<"u6d77", "u6703", "u5206", "u958b", "uff08", "O", "c", "e", "a", "n", " ", "W", "i", "l", "l", " ", "P", "a", "r", "t", "uff09">>,
      <<"O", "c", "e", "a", "n", " ", "W", "i", "l", "l", " ", "P", "a", "r", "t">>>>,
    <<<<"u6d77", "u6703", "u5206", "u958b">>,
      <<"O", "c", "e", "a", "n", " ", "W", "i", "l", "l", " ", "P", "a", "r", "t">>>>,
    <<<<"u4e16", "u754c", "u6700", "u7f8e", "u7684", "u8072", "u97f3", " ", "(", "u5947", "u7570", "u6069", "u5178", ")">>,
      <<"u4e16", "u754c", "u6700", "u7f8e", "u7684", "u8072", "u97f3">>>>,
    <<<<"u8b93", "u751f", "u547d", "u5bdb", "u5b8f">>,
      <<"u8b93", "u751f", "u547d", "u5bec", "u5b8f">>>>,
    <<<<"u5b89", "u975c", " ", "(", "S", "t", "i", "l", "l", ")">>,
      <<"u5b89", "u975c", " ", "S", "t", "i", "l", "l">>>>,
    <<<<"u5168", "u56e0", "u57fa", "u7763">>,
      <<"u5168", "u56e0", "u57fa", "u7763">>>>,
    <<<<"u518d", "u6b21", "u8b93", "u6211", "u66f4", "u65b0">>,
      <<"u518d", "u6b21", "u5c07", "u6211", "u66f4", "u65b0">>>>,
    <<<<"u8036", "u548c", "u83ef", "u4ee5", "u52d2", " ", "(", "u540c", "u5fc3", "u5713", ")">>,
      <<"u8036", "u548c", "u83ef", "u4ee5", "u52d2">>>>,
    <<<<"u4e3b", "u79b1", "u6587", " ", "(", "u8acb", "u6559", "u5c0e", "u6211", "u5011", "u79b1", "u544a", ")">>,
      <<"u4e3b", "u79b1", "u6587", "uff08", "u8acb", "u6559", "u5c0e", "u6211", "u5011", "u79b1", "u544a", "uff09">>>>,
    <<<<"u81f3", "u611b", "u7684", "u56de", "u56ae">>,
      <<"u81f3", "u611b", "u7684", "u8ff4", "u97ff">>>>,
    <<<<"u65b0", "u7684", "u7570", "u8c61", "uff0c", "u65b0", "u7684", "u65b9", "u5411">>,
      <<"u65b0", "u7684", "u7570", "u8c61", " ", "u65b0", "u7684", "u65b9", "u5411">>>>,
    <<<<"u5750", "u5728", "u5bf6", "u5750", "u4e0a", "u8056", "u6f54", "u7f94", "u7f8a">>,
      <<"u5750", "u5728", "u5bf6", "u5ea7", "u4e0a", "u8056", "u6f54", "u7f94", "u7f8a">>>>,
    <<<<"u795e", "u771f", "u6b63", "u5fc3", "u610f", " ", "(", "T", "h", "e", " ", "h", "e", "a", "r", "t", " ", "o", "f", " ", "w", "o", "r", "s", "h", "i", "p", ")">>,
      <<"u795e", "u771f", "u6b63", "u5fc3", "u610f", " ", "(", "T", "h", "e", " ", "H", "e", "a", "r", "t", " ", "o", "f", " ", "W", "o", "r", "s", "h", "i", "p", ")">>>>,
    <<<<"u6bcf", "u4e00", "u5929", " ", "(", "D", "a", "y", " ", "B", "y", " ", "D", "a", "y", ")">>,
      <<"u6bcf", "u4e00", "u5929">>>>,
    <<<<"A", "m", "a", "z", "i", "n", "g", " ", "G", "r", "a", "c", "e", " ", "(", "M", "y", " ", "C", "h", "a", "i", "n", "s", " ", "A", "r", "e", " ", "G", "o", "n", "e", ")", " ", "u5947", "u7570", "u6069", "u5178">>,
      <<"u5947", "u7570", "u6069", "u5178", "uff08", "u9664", "u6389", "u56f0", "u9396", "uff09">>>>
  >>

\* Publisher consolidation table: <<variant, canonical publisher>>.
PUBLISHER_MAPPINGS ==
  <<
    <<<<"A", "l", "a", "n", " ", "Y", "u">>,
      <<"u4f59", "u5b50", "u9e9f">>>>,
    <<<<"u6797", "u56db">>,
      <<"u4f59", "u5b50", "u9e9f">>>>,
    <<<<"T", "s", "z", "-", "L", "a", "m", " ", "M", "a", "k">>,
      <<"u9ea5", "u5b50", "u9716">>>>,
    <<<<"S", "t", "r", "e", "a", "m", " ", "O", "f", " ", "P", "r", "a", "i", "s", "e", " ", "M", "u", "s", "i", "c">>,
      <<"S", "t", "r", "e", "a", "m", " ", "o", "f", " ", "P", "r", "a", "i", "s", "e", " ", "M", "u", "s", "i", "c">>>>,
    <<<<"S", "t", "r", "e", "a", "m", " ", "o", "f", " ", "P", "r", "a", "i", "s", "e">>,
      <<"S", "t", "r", "e", "a", "m", " ", "o", "f", " ", "P", "r", "a", "i", "s", "e", " ", "M", "u", "s", "i", "c">>>>,
    <<<<"S", "t", "e", "a", "m", " ", "o", "f", " ", "P", "r", "a", "i", "s", "e">>,
      <<"S", "t", "r", "e", "a", "m", " ", "o", "f", " ", "P", "r", "a", "i", "s", "e", " ", "M", "u", "s", "i", "c">>>>,
    <<<<"S", "t", "r", "e", "a", "m", " ", "o", "f", " ", "P", "r", "a", "i", "s", "e", " ", "M", "u", "s", "i", "c", "e">>,
      <<"S", "t", "r", "e", "a", "m", " ", "o", "f", " ", "P", "r", "a", "i", "s", "e", " ", "M", "u", "s", "i", "c">>>>,
    <<<<"u9999", "u6e2f", "u57fa", "u7763", "u5f92", "u97f3", "u6a02", "u5354", "u6703">>,
      <<"u9999", "u6e2f", "u57fa", "u7763", "u5f92", "u97f3", "u6a02", "u4e8b", "u5de5", "u5354", "u6703">>>>,
    <<<<"u9999", "u6e2f", "u57fa", "u7763", "u5f92", "u97f3", "u4e8b", "u5de5", "u5354", "u6703">>,
      <<"u9999", "u6e2f", "u57fa", "u7763", "u5f92", "u97f3", "u6a02", "u4e8b", "u5de5", "u5354", "u6703">>>>,
    <<<<"u9999", "u6e2f", "u57fa", "u7763", "u5f92", "u97f3", "u6a02", "u4e8b", "u5de5", "u5354", "u6703", "(", "H", "K", "A", "C", "M", ")">>,
      <<"u9999", "u6e2f", "u57fa", "u7763", "u5f92", "u97f3", "u6a02", "u4e8b", "u5de5", "u5354", "u6703">>>>,
    <<<<"u9e79", "u86cb", "u2fb3", "u6a02", "u4e8b", "u2f2f">>,
      <<"u9e79", "u86cb", "u97f3", "u6a02", "u4e8b", "u5de5">>>>,
    <<<<"u9e79", "u86cb", "u97f3", "u6a02", "u4e8b">>,
      <<"u9e79", "u86cb", "u97f3", "u6a02", "u4e8b", "u5de5">>>>,
    <<<<"u00a9", "ufe0f", "M", "i", "l", "k", "&", "H", "o", "n", "e", "y", " ", "W", "o", "r", "s", "h", "i", "p">>,
      <<"M", "i", "l", "k", " ", "&", " ", "H", "o", "n", "e", "y", " ", "W", "o", "r", "s", "h", "i", "p">>>>,
    <<<<"M", "i", "l", "k", "&", "H", "o", "n", "e", "y", " ", "W", "o", "r", "s", "h", "i", "p">>,
      <<"M", "i", "l", "k", " ", "&", " ", "H", "o", "n", "e", "y", " ", "W", "o", "r", "s", "h", "i", "p">>>>,
    <<<<"u89d2", "u8072", "u4f48", "u9053", "u5718">>,
      <<"u89d2", "u8072", "u4f7f", "u5718">>>>,
    <<<<"O", "n", "e", " ", "C", "i", "r", "c", "l", "e", " ", "L", "i", "m", "i", "t", "e", "d">>,
      <<"O", "n", "e", " ", "C", "i", "r", "c", "l", "e", " ", "L", "t", "d">>>>,
    <<<<"u540c", "u5fc3", "u5713", "u656c", "u62dc", "u798f", "u97f3", "u5e73", "u53f0">>,
      <<"O", "n", "e", " ", "C", "i", "r", "c", "l", "e", " ", "L", "t", "d">>>>,
    <<<<"F", "l", "o", "w", " ", "M", "u", "s", "i", "c", ",", " ", "F", "l", "o", "w", " ", "C", "h", "u", "r", "c", "h">>,
      <<"F", "l", "o", "w", " ", "C", "h", "u", "r", "c", "h">>>>,
    <<<<"F", "l", "o", "w", " ", "M", "u", "s", "i", "c">>,
      <<"F", "l", "o", "w", " ", "C", "h", "u", "r", "c", "h">>>>,
    <<<<"G", "s", "u", "s", " ", "M", "u", "s", "i", "c", " ", "M", "i", "n", "i", "s", "t", "r", "y">>,
      <<"G", "s", "u", "s", " ", "M", "u", "s", "i", "c", " ", "M", "i", "n", "i", "s", "t", "r", "y", " ", "L", "t", "d">>>>,
    <<<<"u5468", "u654f", "u66e6">>,
      <<"E", "s", "t", "h", "e", "r", " ", "C", "h", "o", "w">>>>,
    <<<<"A", "F", "C">>,
      <<"A", "F", "C", " ", "V", "a", "n", "c", "o", "u", "v", "e", "r">>>>,
    <<<<"u52a0", "u62ff", "u5927", "u57fa", "u7763", "u4f7f", "u8005", "u5354", "u6703">>,
      <<"A", "F", "C", " ", "V", "a", "n", "c", "o", "u", "v", "e", "r">>>>,
    <<<<"R", "u", "t", "h", " ", "C", "h", "e", "n", " ", "M", "u", "s", "i", "c">>,
      <<"u66fe", "u8def", "u5f97">>>>,
    <<<<"R", "u", "t", "h", " ", "C", "h", "e", "n">>,
      <<"u66fe", "u8def", "u5f97">>>>,
    <<<<"W", "o", "r", "s", "h", "i", "p", " ", "N", "a", "t", "i", "o", "n", "s", " ", "/", " ", "u73bb", "u7483", "u6d77", "u6a02", "u5718">>,
      <<"W", "o", "r", "s", "h", "i", "p", " ", "N", "a", "t", "i", "o", "n", "s">>>>,
    <<<<"W", "o", "r", "s", "h", "i", "p", " ", "N", "a", "t", "i", "o", "n", "s", " ", "X", " ", "u73bb", "u7483", "u6d77", "u6a02", "u5718">>,
      <<"W", "o", "r", "s", "h", "i", "p", " ", "N", "a", "t", "i", "o", "n", "s">>>>,
    <<<<"W", "o", "r", "s", "h", "i", "p", " ", "N", "a", "t", "i", "o", "n">>,
      <<"W", "o", "r", "s", "h", "i", "p", " ", "N", "a", "t", "i", "o", "n", "s">>>>,
    <<<<"u00a9", " ", "2", "0", "1", "9", " ", "W", "o", "r", "s", "h", "i", "p", " ", "N", "a", "t", "i", "o", "n", "s">>,
      <<"W", "o", "r", "s", "h", "i", "p", " ", "N", "a", "t", "i", "o", "n", "s">>>>,
    <<<<"u73bb", "u7483", "u6d77", "u6a02", "u5718">>,
      <<"W", "o", "r", "s", "h", "i", "p", " ", "N", "a", "t", "i", "o", "n", "s">>>>,
    <<<<"u980c", "u6069", "u65cb", "u5f8b">>,
      <<"G", "r", "a", "c", "e", " ", "M", "e", "l", "o", "d", "i", "a">>>>,
    <<<<"K", "y", "r", "i", "o", "s", " ", "C", "u", "l", "t", "u", "r", "e", " ", "A", "s", "s", "o", "c", "i", "a", "t", "i", "o", "n">>,
      <<"G", "r", "a", "c", "e", " ", "M", "e", "l", "o", "d", "i", "a">>>>,
    <<<<"C", "a", "n", "t", "o", "n", "h", "y", "m", "n">>,
      <<"C", "a", "n", "t", "o", "n", "H", "y", "m", "n">>>>,
    <<<<"P", "u", "b", "l", "i", "c", " ", "D", "o", "m", "a", "i", "n", ",", " ", "S", "o", "n", " ", "M", "u", "s", "i", "c", " ", "W", "o", "r", "s", "h", "i", "p", " ", "M", "i", "n", "i", "s", "t", "r", "y">>,
      <<"S", "o", "n", " ", "M", "u", "s", "i", "c">>>>
  >>

\* Static song -> publisher overrides, in dict order.
STATIC_SONG_COPYRIGHT_MAPPINGS ==
  <<
    <<<<"u5c0f", "u5c0f", "u7684", "u96d9", "u624b">>,
      <<"u73bb", "u7483", "u6d77", "u6a02", "u5718">>>>,
    <<<<"u662f", "u70ba", "u7962", "u9810", "u5099">>,
      <<"M", "i", "l", "k", " ", "&", " ", "H", "o", "n", "e", "y", " ", "W", "o", "r", "s", "h", "i", "p">>>>,
    <<<<"u4ecd", "u7136", "u656c", "u62dc">>,
      <<"F", "l", "o", "w", " ", "C", "h", "u", "r", "c", "h">>>>,
    <<<<"u6700", "u7f8e", "u597d", "u7684", "u4ed7">>,
      <<"u9999", "u6e2f", "u57fa", "u7763", "u5f92", "u97f3", "u6a02", "u4e8b", "u5de5", "u5354", "u6703">>>>,
    <<<<"u4e3b", "u8d85", "u904e", "u6211", "u5728", "u9762", "u5c0d", "u7684", "u7d05", "u6d77">>,
      <<"R", "e", "d", "S", "e", "a", " ", "M", "u", "s", "i", "c">>>>,
    <<<<"u8b9a", "u980c", "u672a", "u505c">>,
      <<"u980c", "u6069", "u65cb", "u5f8b">>>>,
    <<<<"u5750", "u5728", "u5bf6", "u5ea7", "u4e0a", "u8056", "u6f54", "u7f94", "u7f8a">>,
      <<"S", "t", "r", "e", "a", "m", " ", "o", "f", " ", "P", "r", "a", "i", "s", "e", " ", "M", "u", "s", "i", "c">>>>,
    <<<<"u6211", "u5c6c", "u7962">>,
      <<"u9e79", "u86cb", "u97f3", "u6a02", "u4e8b", "u5de5">>>>,
    <<<<"u5230", "u90a3", "u65e5">>,
      <<"G", "s", "u", "s", " ", "M", "u", "s", "i", "c", " ", "M", "i", "n", "i", "s", "t", "r", "y", " ", "L", "t", "d">>>>,
    <<<<"u5929", "u7236", ".", ".", ".">>,
      <<"E", "s", "t", "h", "e", "r", " ", "C", "h", "o", "w">>>>,
    <<<<"u5929", "u7236", "u22ef">>,
      <<"E", "s", "t", "h", "e", "r", " ", "C", "h", "o", "w">>>>,
    <<<<"G", "r", "e", "a", "t", " ", "I", "s", " ", "T", "h", "y", " ", "F", "a", "i", "t", "h", "f", "u", "l", "n", "e", "s", "s", " ", "u4e3b", "u6069", "u4f55", "u4fe1", "u5be6">>,
      <<"u9999", "u6e2f", "u57fa", "u7763", "u5f92", "u97f3", "u6a02", "u4e8b", "u5de5", "u5354", "u6703">>>>,
    <<<<"u9047", "u65bc", "u7962">>,
      <<"W", "o", "r", "s", "h", "i", "p", " ", "N", "a", "t", "i", "o", "n", "s">>>>,
    <<<<"u9023", "u65bc", "u7962">>,
      <<"W", "o", "r", "s", "h", "i", "p", " ", "N", "a", "t", "i", "o", "n", "s">>>>,
    <<<<"u8cdc", "u6211", "u81ea", "u7531">>,
      <<"S", "t", "r", "e", "a", "m", " ", "o", "f", " ", "P", "r", "a", "i", "s", "e", " ", "M", "u", "s", "i", "c">>>>,
    <<<<"u27dbd", "u6211", "u81ea", "u7531">>,
      <<"S", "t", "r", "e", "a", "m", " ", "o", "f", " ", "P", "r", "a", "i", "s", "e", " ", "M", "u", "s", "i", "c">>>>,
    <<<<"u5782", "u7d72", "u67f3", "u6a39", "u4e0b">>,
      <<"W", "o", "r", "s", "h", "i", "p", " ", "N", "a", "t", "i", "o", "n", "s">>>>
  >>

\* Songs forced to have no publisher.
SONGS_WITHOUT_PUBLISHER ==
  { <<"C", "h", "r", "i", "s", "t", "m", "a", "s", "2", "0", "2", "5", "uff08", "u4fe1", "u773e", "u9f4a", "u5230", "u4e3b", "u524d", ",", " ", "u7962", "u662f", "u5f4c", "u8cfd", "u4e9e", ",", " ", "u7962", "u914d", "u5f97", ",", " ", "u541b", "u5c0a", "u7fa9", "u50d5", ",", " ", "u597d", "u4fe1", "u606f", ",", " ", "u795e", "u540c", "u5728", ",", " ", "u69ae", "u7f8e", "u5c6c", "u7962", "uff09">> }

-----------------------------------------------------------------------------
(* clean_song_name.                                                        *)

\* A table lookup: the value of the first pair of table whose key is k.
InTable(table, k) == \E i \in DOMAIN table : table[i][1] = k

Lookup(table, k) == table[Least({i \in DOMAIN table : table[i][1] = k})][2]

Pronouns == {"u4f60", "u88ae", "u7962"}

\* A fold that misses the second variant (u88ae).
FoldPronounsFirstOnly(s) == Replace(s, <<"u4f60">>, <<"u7962">>)

\* song.replace(u4f60, u7962); song.replace(u88ae, u7962)
FoldPronouns(s) ==
  Replace(Replace(s, <<"u4f60">>, <<"u7962">>), <<"u88ae">>, <<"u7962">>)

\* The full-width to half-width replacements, in the code's order.
FoldPunctuation(s) ==
  LET s1 == Replace(s, <<"uff08">>, <<"(">>)
      s2 == Replace(s1, <<"uff09">>, <<")">>)
      s3 == Replace(s2, <<"uff0c">>, <<",">>)
      s4 == Replace(s3, <<"u3002">>, <<".">>)
      s5 == Replace(s4, <<"uff1a">>, <<":">>)
      s6 == Replace(s5, <<"uff01">>, <<"!">>)
  IN  Replace(s6, <<"uff1f">>, <<"?">>)

\* \s+by\s+[A-Za-z\s]+$ (ignoring case) matches s[i:].
MatchesAttribution(s, i) ==
  LET j == SkipSpace(s, i)
  IN  /\ j > i
      /\ HasAtI(s, j, <<"b", "y">>)
      /\ \E k \in (j + 3)..Len(s) :
           /\ \A m \in (j + 2)..(k - 1) : IsSpace(s[m])
           /\ \A m \in k..Len(s) : IsLetter(s[m]) \/ IsSpace(s[m])

\* re.sub(r'\s+by\s+[A-Za-z\s]+$', '', song, flags=re.IGNORECASE)
StripAttribution(s) ==
  CutAt(s, Least({n \in 1..Len(s) : MatchesAttribution(s, n)}))

\* \b holds in s between index i - 1 and index i.
WordBoundary(s, i) ==
  LET before == i >= 2 /\ i - 1 <= Len(s) /\ IsWord(s[i - 1])
      after == i >= 1 /\ i <= Len(s) /\ IsWord(s[i])
  IN  before # after

\* The index after the text matched from j, or 0: one operator per pattern.
\* \bMedl?ey\b
MedleyEnd(s, j) ==
  IF HasAtI(s, j, <<"m", "e", "d", "l", "e", "y">>) THEN j + 6
  ELSE IF HasAtI(s, j, <<"m", "e", "d", "e", "y">>) THEN j + 5
  ELSE 0

\* A literal, a run of whitespace (\s+), a second literal.
TwoWordsEnd(s, j, first, second) ==
  IF /\ HasAtI(s, j, first)
     /\ SkipSpace(s, j + Len(first)) > j + Len(first)
     /\ HasAtI(s, SkipSpace(s, j + Len(first)), second)
    THEN SkipSpace(s, j + Len(first)) + Len(second)
    ELSE 0

\* \bChorus\s+Only\b
ChorusOnlyEnd(s, j) ==
  TwoWordsEnd(s, j, <<"c", "h", "o", "r", "u", "s">>, <<"o", "n", "l", "y">>)

\* \(skip\s+verse\)
SkipVerseEnd(s, j) ==
  TwoWordsEnd(s, j, <<"(", "s", "k", "i", "p">>, <<"v", "e", "r", "s", "e", ")">>)

\* \(Canto\), \(Mando\): a literal.
LiteralEnd(s, j, lit) == IF HasAtI(s, j, lit) THEN j + Len(lit) ELSE 0

\* \+\s*Communion (case-sensitive; split_combined_songs)
CommunionEnd(s, j) ==
  IF /\ HasAt(s, j, <<"+">>)
     /\ HasAt(s, SkipSpace(s, j + 1), <<"C", "o", "m", "m", "u", "n", "i", "o", "n">>)
    THEN SkipSpace(s, j + 1) + 9
    ELSE 0

\* \([^)]*\) (normalize_leader_name)
AnnotationEnd(s, j) ==
  IF HasAt(s, j, <<"(">>)
    THEN LET close == Least({k \in (j + 1)..Len(s) : s[k] = ")"})
         IN  IF close = 0 THEN 0 ELSE close + 1
    ELSE 0

\* The end e of a match that must lie between word boundaries (\b at j and
\* at e), or 0.
Bounded(s, j, e) ==
  IF e > 0 /\ WordBoundary(s, j) /\ WordBoundary(s, e) THEN e ELSE 0

\* The end of a match with the closing greedy \s* taken too.
Trailing(s, e) == IF e > 0 THEN SkipSpace(s, e) ELSE 0

\* The index after the match of a removal pattern whose text starts at j,
\* after the opening \s*, or 0 when the pattern does not match there.
MatchEndFrom(pat, s, j) ==
  CASE pat = "medley" -> Trailing(s, Bounded(s, j, MedleyEnd(s, j)))
    [] pat = "chorus only" -> Trailing(s, Bounded(s, j, ChorusOnlyEnd(s, j)))
    [] pat = "(canto)" -> Trailing(s, LiteralEnd(s, j, <<"(", "c", "a", "n", "t", "o", ")">>))
    [] pat = "(mando)" -> Trailing(s, LiteralEnd(s, j, <<"(", "m", "a", "n", "d", "o", ")">>))
    [] pat = "(skip verse)" -> Trailing(s, SkipVerseEnd(s, j))
    [] pat = "+ Communion" -> Trailing(s, CommunionEnd(s, j))
    [] pat = "(annotation)" -> AnnotationEnd(s, j)

\* The index after the match of a removal pattern that starts at i, or 0 when
\* the pattern does not match there.  Every pattern opens with a greedy \s*.
MatchEnd(pat, s, i) == MatchEndFrom(pat, s, SkipSpace(s, i))

\* re.sub(pattern, '', s): the leftmost match is removed and the scan goes on
\* after it, on the original text.  e is MatchEnd(pat, s, i).
RECURSIVE RemoveFrom(_, _, _)
RECURSIVE RemoveStep(_, _, _, _)
RemoveStep(pat, s, i, e) ==
  IF e > 0 THEN RemoveFrom(pat, s, e) ELSE <<s[i]>> \o RemoveFrom(pat, s, i + 1)

RemoveFrom(pat, s, i) ==
  IF i > Len(s) THEN <<>> ELSE RemoveStep(pat, s, i, MatchEnd(pat, s, i))

RemoveAll(pat, s) == RemoveFrom(pat, s, 1)

\* (\s+[letters]\d+)+ followed by \s* (when trail) matches s[i:] to its end.
RECURSIVE MarkerTail(_, _, _, _)
MarkerTail(s, i, letters, trail) ==
  LET j == SkipSpace(s, i)
      k == SkipDigits(s, j + 1)
  IN  /\ j > i
      /\ j <= Len(s)
      /\ s[j] \in letters
      /\ k > j + 1
      /\ \/ k = Len(s) + 1
         \/ trail /\ SkipSpace(s, k) = Len(s) + 1
         \/ MarkerTail(s, k, letters, trail)

\* re.sub(r'\s+[letters]\d+(\s+[letters]\d+)*\s*$', '', s)
StripMarkers(s, letters) ==
  CutAt(s, Least({n \in 1..Len(s) : MarkerTail(s, n, letters, TRUE)}))

\* The two "Normalize quotes" statements as the source file holds them: both
\* replacements of the first are of the straight double quote by itself, and
\* the second reads as one replace() whose first argument is a triple-quoted
\* literal.
NormalizeQuotes(s) ==
  LET s1 == Replace(Replace(s, <<"\"">>, <<"\"">>), <<"\"">>, <<"\"">>)
  IN  Replace(s1,
              <<",", " ", "\"", "'", "\"", ")", ".", "r", "e", "p", "l", "a", "c", "e", "(">>,
              <<"'">>)

NonSongMarkers ==
  { <<"c", "o", "m", "m", "u", "n", "i", "o", "n">>,
    <<"h", "o", "l", "y", " ", "c", "o", "m", "m", "u", "n", "i", "o", "n">>,
    <<"b", "a", "p", "t", "i", "s", "m">> }

\* The text clean_song_name holds when it reaches the non-song test.
CleanedText(s) ==
  LET s1 == FoldPunctuation(FoldPronouns(s))
      s2 == StripAttribution(s1)
      s3 == RemoveAll("chorus only", RemoveAll("medley", s2))
      s4 == RemoveAll("(skip verse)", RemoveAll("(mando)", RemoveAll("(canto)", s3)))
      s5 == StripMarkers(s4, {"C", "V"})
      s6 == CollapseWhitespace(s5)
      s7 == RStrip(s6, {",", ".", ";", ":"})
  IN  Strip(NormalizeQuotes(s7))

\* The last step of clean_song_name: the song-alias table.
ApplyMapping(s) ==
  IF InTable(SONG_NAME_MAPPINGS, s) THEN Lookup(SONG_NAME_MAPPINGS, s) ELSE s

\* The end of clean_song_name without the non-song test.
FinishCleanKeepingMarkers(c) ==
  IF c = <<>> THEN None
  ELSE OrNone(ApplyMapping(c))

\* The end of clean_song_name, from the non-song test on.
FinishClean(c) ==
  IF Lower(c) \in NonSongMarkers THEN None
  ELSE IF c = <<>> THEN None
  ELSE OrNone(ApplyMapping(c))

clean_song_name(s) == IF ~Truthy(s) THEN None ELSE FinishClean(CleanedText(s))

-----------------------------------------------------------------------------
(* split_combined_songs.                                                   *)

\* The index after the delimiter \s*\+\s*|\s*/\s* that starts at i, or 0.
DelimiterEnd(s, i) ==
  LET j == SkipSpace(s, i)
  IN  IF j <= Len(s) /\ s[j] \in {"+", "/"} THEN SkipSpace(s, j + 1) ELSE 0

\* re.split(r'\s*\+\s*|\s*/\s*', s): cur is the fragment read so far.
RECURSIVE SplitFrom(_, _, _)
SplitFrom(s, i, cur) ==
  IF i > Len(s) THEN <<cur>>
  ELSE LET e == DelimiterEnd(s, i)
       IN  IF e > 0 THEN <<cur>> \o SplitFrom(s, e, <<>>)
           ELSE SplitFrom(s, i + 1, Append(cur, s[i]))

SplitOnDelimiters(s) == SplitFrom(s, 1, <<>>)

\* re.match(r'^[VC]\d+(\s+[VC]\d+)*$', part)
PureMarkers(part) ==
  /\ Len(part) >= 2
  /\ part[1] \in {"V", "C"}
  /\ SkipDigits(part, 2) > 2
  /\ \/ SkipDigits(part, 2) = Len(part) + 1
     \/ MarkerTail(part, SkipDigits(part, 2), {"V", "C"}, FALSE)

\* re.sub(r'\s+B\s*$', '', part)
StripBridge(s) ==
  CutAt(s, Least({n \in 1..Len(s) :
                    /\ SkipSpace(s, n) > n
                    /\ HasAt(s, SkipSpace(s, n), <<"B">>)
                    /\ SkipSpace(s, SkipSpace(s, n) + 1) = Len(s) + 1}))

\* The part with its trailing verse, chorus and bridge markers removed.
StripTrailingMarkers(part) ==
  StripBridge(StripMarkers(StripMarkers(part, {"V"}), {"C"}))

\* The filter loop's body on a stripped part.
FilterStripped(p) ==
  IF PureMarkers(p) THEN <<>> ELSE ListOf(StripTrailingMarkers(p))

\* One iteration of the filter loop: what the part adds to the result.
FilterPart(part) == FilterStripped(Strip(part))

RECURSIVE FilterParts(_)
FilterParts(ps) ==
  IF ps = <<>> THEN <<>> ELSE FilterPart(Head(ps)) \o FilterParts(Tail(ps))

split_combined_songs(s) ==
  IF ~Truthy(s) THEN <<>>
  ELSE FilterParts(SplitOnDelimiters(RemoveAll("+ Communion", s)))

-----------------------------------------------------------------------------
(* normalize_for_comparison: the Comparison Key.                           *)

\* A key whose second fold writes the other variant instead of the canonical
\* pronoun.
normalize_for_comparison_misfold(s) ==
  IF ~Truthy(s) THEN <<>>
  ELSE Lower(RemoveWhitespace(FoldPunctuation(
         Replace(Replace(s, <<"u4f60">>, <<"u7962">>), <<"u88ae">>, <<"u4f60">>))))

normalize_for_comparison(s) ==
  IF ~Truthy(s) THEN <<>>
  ELSE Lower(RemoveWhitespace(FoldPunctuation(FoldPronouns(s))))

-----------------------------------------------------------------------------
(* normalize_leader_name.                                                  *)

\* re.sub(r'^[A-Z]\d*:\s*', '', leader)
StripRolePrefix(s) ==
  IF /\ Len(s) >= 1
     /\ IsUpper(s[1])
     /\ HasAt(s, SkipDigits(s, 2), <<":">>)
    THEN SubSeq(s, SkipSpace(s, SkipDigits(s, 2) + 1), Len(s))
    ELSE s

\* The text before the first '/' alone: '&' is not taken for a delimiter.
FirstLeaderSlashOnly(s) ==
  LET i == Least({n \in 1..Len(s) : s[n] = "/"})
  IN  IF i = 0 THEN s ELSE SubSeq(s, 1, i - 1)

\* re.split(r'[/&]', leader)[0] when the name holds '/' or '&'.
FirstLeader(s) ==
  LET i == Least({n \in 1..Len(s) : s[n] \in {"/", "&"}})
  IN  IF i = 0 THEN s ELSE SubSeq(s, 1, i - 1)

normalize_leader_name(leader) ==
  IF ~Truthy(leader) THEN None
  ELSE OrNone(Strip(FirstLeader(StripRolePrefix(RemoveAll("(annotation)", leader)))))

-----------------------------------------------------------------------------
(* Dates: datetime.strptime(date_str, '%Y-%m-%d') and the fields the       *)
(* service record derives from the date.                                   *)

\* The result of a parse that raises ValueError.
NoDate == <<>>

Digits == <<"0", "1", "2", "3", "4", "5", "6", "7", "8", "9">>

DigitValue(c) == (CHOOSE i \in DOMAIN Digits : Digits[i] = c) - 1

At(s, i) == IF i >= 1 /\ i <= Len(s) THEN s[i] ELSE "end"

\* How many characters the month group 1[0-2]|0[1-9]|[1-9] takes at i (0: no
\* match).
MonthLen(s, i) ==
  IF At(s, i) = "1" /\ At(s, i + 1) \in {"0", "1", "2"} THEN 2
  ELSE IF At(s, i) = "0" /\ IsDigit(At(s, i + 1)) /\ At(s, i + 1) # "0" THEN 2
  ELSE IF IsDigit(At(s, i)) /\ At(s, i) # "0" THEN 1
  ELSE 0

\* How many characters the day group 3[01]|[12]\d|0[1-9]|[1-9]| [1-9] takes
\* at i (0: no match).
DayLen(s, i) ==
  IF At(s, i) = "3" /\ At(s, i + 1) \in {"0", "1"} THEN 2
  ELSE IF At(s, i) \in {"1", "2"} /\ IsDigit(At(s, i + 1)) THEN 2
  ELSE IF At(s, i) \in {"0", " "} /\ IsDigit(At(s, i + 1)) /\ At(s, i + 1) # "0" THEN 2
  ELSE IF IsDigit(At(s, i)) /\ At(s, i) # "0" THEN 1
  ELSE 0

\* The number a run of digits (and, for the day, a leading space) denotes.
RECURSIVE Number(_)
Number(s) ==
  IF s = <<>> THEN 0
  ELSE IF s[Len(s)] = " " THEN 0
  ELSE 10 * Number(SubSeq(s, 1, Len(s) - 1)) + DigitValue(s[Len(s)])

IsLeap(y) == y % 4 = 0 /\ (y % 100 # 0 \/ y % 400 = 0)

DaysInMonth(y, m) ==
  IF m = 2 THEN (IF IsLeap(y) THEN 29 ELSE 28)
  ELSE IF m \in {4, 6, 9, 11} THEN 30
  ELSE 31

\* The date of the fields, or NoDate when they are no calendar date.
ValidDate(year, month, day) ==
  IF year >= 1 /\ day >= 1 /\ day <= DaysInMonth(year, month)
    THEN <<year, month, day>> ELSE NoDate

\* The parse of s whose month group takes m characters and whose day group
\* takes d.
ParseFields(s, m, d) ==
  IF m > 0 /\ At(s, 6 + m) = "-" /\ d > 0 /\ 6 + m + d = Len(s)
    THEN ValidDate(Number(SubSeq(s, 1, 4)),
                   Number(SubSeq(s, 6, 5 + m)),
                   Number(SubSeq(s, 7 + m, 6 + m + d)))
    ELSE NoDate

ParseWithMonth(s, m) == ParseFields(s, m, DayLen(s, 7 + m))

\* strptime: <<year, month, day>>, or NoDate where it raises (the text does
\* not match the format, text remains after the match, or the fields are no
\* calendar date).
ParseDate(s) ==
  IF Len(s) >= 8 /\ (\A i \in 1..4 : IsDigit(s[i])) /\ s[5] = "-"
    THEN ParseWithMonth(s, MonthLen(s, 6))
    ELSE NoDate

\* date.weekday(): Monday is 0, Saturday 5, Sunday 6.
Weekday(date) ==
  LET offsets == <<0, 3, 2, 5, 0, 3, 5, 1, 4, 6, 2, 4>>
      y == IF date[2] < 3 THEN date[1] - 1 ELSE date[1]
      sunday0 == (y + (y \div 4) - (y \div 100) + (y \div 400)
                    + offsets[date[2]] + date[3]) % 7
  IN  (sunday0 + 6) % 7

-----------------------------------------------------------------------------
(* Rows: consolidate_multiline_rows and the service builder of             *)
(* load_csv_data.  A row is a sequence of cells; Cell(row, c) is Python's  *)
(* row[c] (columns count from 0).                                          *)

Cell(row, c) == row[c + 1]

\* The least width consolidate_multiline_rows pads a row to.
PaddedWidth == 17

\* The least width load_csv_data asks of a consolidated row.
MinColumns == 16

\* while len(row) < 17: row.append('')
Pad(row) ==
  [c \in 1..(IF Len(row) < PaddedWidth THEN PaddedWidth ELSE Len(row)) |->
     IF c <= Len(row) THEN row[c] ELSE <<>>]

\* row[0] and row[0].strip(): the row opens a record.
HasDate(row) == Strip(Cell(row, 0)) # <<>>

\* The cell a continuation cell is merged into.
MergeCell(current, cont) ==
  IF Strip(cont) = <<>> THEN current
  ELSE IF current # <<>> THEN current \o <<" ">> \o Strip(cont)
  ELSE Strip(cont)

\* The first column (from 1) of the continuation row whose merge reads
\* the record in progress beyond its end, or 0: there current_row[i] raises
\* IndexError.
OverflowColumn(current, row) ==
  Least({c \in Len(current)..(Len(row) - 1) : Strip(Cell(row, c)) # <<>>})

\* The record in progress after the merge loop over the continuation row.  When the
\* loop raises, every column of the record has been merged already: the
\* overflow column lies beyond them.
MergeRow(current, row) ==
  [c \in 1..Len(current) |->
     IF c >= 2 /\ c <= Len(row)
       THEN MergeCell(current[c], row[c])
       ELSE current[c]]

\* split_combined_songs and clean_song_name over the fragments of one cell.
RECURSIVE CleanAll(_)
CleanAll(fragments) ==
  IF fragments = <<>> THEN <<>>
  ELSE ListOf(clean_song_name(Head(fragments))) \o CleanAll(Tail(fragments))

\* row[idx].strip(), empty for a column the row lacks.
StrippedCell(row, idx) == IF idx >= Len(row) THEN <<>> ELSE Strip(Cell(row, idx))

\* The songs of one stripped cell.
SongsOfCell(cell) ==
  IF cell = <<>> THEN <<>> ELSE CleanAll(split_combined_songs(cell))

RECURSIVE extract_songs_from_columns(_, _)
extract_songs_from_columns(row, indices) ==
  IF indices = <<>> THEN <<>>
  ELSE SongsOfCell(StrippedCell(row, Head(indices)))
         \o extract_songs_from_columns(row, Tail(indices))

\* The service dictionary.
ServiceRecord(date, leader, theme, praise1, praise2, peace) ==
  [ date |-> date,
    year |-> date[1],
    month |-> date[2],
    weekday |-> Weekday(date),
    praise_leader |-> leader,
    theme |-> theme,
    praise1 |-> praise1,
    praise2 |-> praise2,
    peace |-> peace,
    all_songs |-> praise1 \o praise2 \o peace ]

\* The service record load_csv_data builds from an accepted row.
BuildService(row) ==
  ServiceRecord(ParseDate(Strip(Cell(row, 0))),
                normalize_leader_name(Cell(row, 1)),
                IF Len(row) > 2 THEN Strip(Cell(row, 2)) ELSE <<>>,
                extract_songs_from_columns(row, <<3, 5, 7>>),
                extract_songs_from_columns(row, <<9, 11, 13>>),
                extract_songs_from_columns(row, <<15>>))

\* What the loop body of load_csv_data adds to services for one row.
LoadedFrom(row) ==
  IF Len(row) < MinColumns THEN <<>>
  ELSE IF Strip(Cell(row, 0)) = <<>> THEN <<>>
  ELSE IF ParseDate(Strip(Cell(row, 0))) = NoDate THEN <<>>
  ELSE IF ~Truthy(normalize_leader_name(Cell(row, 1))) THEN <<>>
  ELSE <<BuildService(row)>>

-----------------------------------------------------------------------------
(* Inputs.                                                                 *)

\* The longest input text, counted in pieces of a menu.
MaxPieces == 2

\* Every concatenation of at most n texts of the set pieces.
RECURSIVE Concats(_, _)
Concats(pieces, n) ==
  IF n = 0 THEN {<<>>}
  ELSE LET shorter == Concats(pieces, n - 1)
       IN  shorter \cup {p \o q : p \in pieces, q \in shorter}

AliasNames ==
  {SONG_NAME_MAPPINGS[i][1] : i \in DOMAIN SONG_NAME_MAPPINGS}
    \cup {SONG_NAME_MAPPINGS[i][2] : i \in DOMAIN SONG_NAME_MAPPINGS}

\* Pieces of raw song fragments: Han characters, the three pronoun variants,
\* full-width and trailing punctuation, and the annotations the cleaner strips.
CleanPieces ==
  { <<"u9858">>, <<"u4f60">>, <<"u88ae">>, <<"u7962">>, <<" ">>, <<"uff0c">>, <<".">>,
    <<" ", "M", "e", "d", "l", "e", "y">>,
    <<" ", "b", "y", " ", "A", "l">>,
    <<"(", "C", "a", "n", "t", "o", ")">>,
    <<" ", "C", "1">>,
    <<"C", "o", "m", "m", "u", "n", "i", "o", "n">> }

ExampleSongs ==
  { <<"u9858", "u4f60", "u570b", "u5ea6", "u5f70", "u986f">>,
    <<"u9858", "u7962", "u570b", "u5ea6", "u5f70", "u986f">>,
    <<"u9858", "u88ae", "u570b", "u5ea6", "u5f70", "u986f">>,
    <<"u201c", "G", "r", "a", "c", "e", "u201d">>,
    <<"\"", "G", "r", "a", "c", "e", "\"">>,
    <<"I", "t", "u2019", "s">>,
    <<"I", "t", "'", "s">> }

InputSongs == AliasNames \cup ExampleSongs \cup Concats(CleanPieces, MaxPieces)

\* Pieces of texts to compare: pronoun variants, both widths of punctuation,
\* both cases of a letter, whitespace.
ComparePieces ==
  { <<"u9858">>, <<"u4f60">>, <<"u88ae">>, <<"u7962">>, <<" ">>, <<"\t">>,
    <<"uff08">>, <<"(">>, <<"uff0c">>, <<"A">>, <<"a">>, <<"G", "r", "a", "c", "e">> }

InputTexts == AliasNames \cup Concats(ComparePieces, MaxPieces)

\* Pieces of cells: names, verse, chorus and bridge markers, delimiters and
\* the communion marker.
SplitPieces ==
  { <<"S">>, <<"X">>, <<" ">>, <<"V", "1">>, <<" ", "V", "2">>, <<" ", "C", "1">>,
    <<" ", "B">>, <<" ", "+", " ">>, <<"/">>,
    <<" ", "+", " ", "C", "o", "m", "m", "u", "n", "i", "o", "n">> }

ExampleCells ==
  { <<"S", "o", "n", "g", "1", " ", "V", "1", " ", "V", "2", " ", "+", " ",
      "S", "o", "n", "g", "2">>,
    <<"S", "o", "n", "g", " ", "A", " ", "+", " ",
      "C", "o", "m", "m", "u", "n", "i", "o", "n">>,
    <<"A", " ", "+", " ", "C", "o", "m", "m", "u", "n", "i", "o", "n", " ", "X">>,
    <<"V", "1", " ", "V", "2">> }

InputCells == ExampleCells \cup Concats(SplitPieces, MaxPieces)

\* The most rows of a file, and the most entries of the metadata.
MaxRows == 3

\* A row of n cells: cell c (from 0) is cells[c] where cells gives one, and
\* empty elsewhere.
RowOf(n, cells) ==
  [c \in 1..n |-> IF (c - 1) \in DOMAIN cells THEN cells[c - 1] ELSE <<>>]

\* Rows of a praise-history file: dated and continuation rows, shorter and
\* longer than the padded width, with dates and leaders the loader accepts
\* and ones it skips.
RowMenu ==
  { \* a short dated row and its continuation (the spec's example)
    RowOf(5, 0 :> <<"2", "0", "2", "5", "-", "0", "1", "-", "0", "4">>
             @@ 1 :> <<"A">> @@ 4 :> <<"S", "1">>),
    RowOf(5, 4 :> <<"S", "2">>),
    \* a full dated row with songs in the three groups, a non-song marker
    \* and a song sung twice
    RowOf(17, 0 :> <<"2", "0", "2", "5", "-", "0", "1", "-", "0", "5">>
              @@ 1 :> <<"P", "1", ":", " ", "J", "o", " ", "/", " ", "A", "m", "y">>
              @@ 2 :> <<" ", "T", " ">>
              @@ 3 :> <<"G", " ", "+", " ", "C", "o", "m", "m", "u", "n", "i", "o", "n">>
              @@ 5 :> <<"B", "a", "p", "t", "i", "s", "m", " ", "/", " ", "G">>
              @@ 9 :> <<"u9858", "u4f60", " ", "V", "1">>
              @@ 15 :> <<"C", "o", "r", "n", "e", "r", "s", "t", "o", "n", "e">>),
    \* a date strptime rejects
    RowOf(17, 0 :> <<"2", "0", "2", "5", "-", "1", "3", "-", "0", "1">>
              @@ 1 :> <<"B">> @@ 3 :> <<"S">>),
    \* a leader that normalizes to nothing
    RowOf(17, 0 :> <<"2", "0", "2", "5", "-", "0", "1", "-", "1", "1">>
              @@ 1 :> <<"(", "H", "C", ")">> @@ 3 :> <<"S">>),
    \* a continuation row wider than the padded width
    RowOf(18, 3 :> <<" ", "S", "3", " ">> @@ 17 :> <<"x">>),
    \* a continuation row whose date cell holds only whitespace
    RowOf(17, 0 :> <<" ">> @@ 1 :> <<"&", "B">> @@ 3 :> <<" ">>),
    \* a dated row wider than the padded width
    RowOf(19, 0 :> <<" ", "2", "0", "2", "5", "-", "1", "-", "1", "2">>
              @@ 1 :> <<"C">> @@ 5 :> <<"V", "1", " ", "V", "2">> @@ 18 :> <<"y">>) }

\* Every sequence of at most n elements of the set menu.
RECURSIVE SeqsUpTo(_, _)
SeqsUpTo(menu, n) ==
  IF n = 0 THEN {<<>>}
  ELSE LET shorter == SeqsUpTo(menu, n - 1)
       IN  shorter \cup {<<m>> \o q : m \in menu, q \in {t \in shorter : Len(t) = n - 1}}

InputFiles == SeqsUpTo(RowMenu, MaxRows)

-----------------------------------------------------------------------------
(* SpecClean: one call of clean_song_name on a raw fragment.               *)

IdleClean == song = <<>> /\ cleaned = None
IdleCompare == text = <<>> /\ key = <<>> /\ key2 = <<>>
IdleSplit == song_text = <<>> /\ parts = <<>> /\ filtered = <<>>
IdleLoad ==
  /\ reader = <<>>
  /\ rows = <<>>
  /\ row_i = 0
  /\ current_row = <<>>
  /\ consolidated = <<>>
  /\ load_i = 0
  /\ services = <<>>
IdleCopyright == metadata = <<>> /\ song_name = <<>> /\ copyright = None
IdleWalk ==
  /\ service_list = <<>>
  /\ walk_i = 0
  /\ seen_new_songs = {}
  /\ worships_with_new = 0
  /\ dates_with_new = <<>>
IdleStats ==
  /\ historical_songs_set = {}
  /\ year_services = <<>>
  /\ leader_services = <<>>
  /\ leader_stats = <<>>
  /\ global_stats = None
  /\ IdleWalk
  /\ new_song_usage_stats = <<>>
  /\ publisher_stats = None

InitClean ==
  /\ pc = "clean_song_name"
  /\ song \in InputSongs
  /\ cleaned = None
  /\ IdleCompare /\ IdleSplit /\ IdleLoad /\ IdleCopyright /\ IdleStats

CleanSongName ==
  /\ pc = "clean_song_name"
  /\ cleaned' = clean_song_name(song)
  /\ pc' = "cleaned"
  /\ UNCHANGED <<song, notClean>>

NextClean == CleanSongName

SpecClean == InitClean /\ [][NextClean]_vars

\* Every text that differs from s only in which pronoun variant stands at the
\* places where s holds one.
RECURSIVE PronounVariants(_)
PronounVariants(s) ==
  IF s = <<>> THEN {<<>>}
  ELSE LET heads == IF Head(s) \in Pronouns THEN Pronouns ELSE {Head(s)}
       IN  {<<h>> \o t : h \in heads, t \in PronounVariants(Tail(s))}

\* C1 (as claimed): alias closure.  Cleaning a key of the song-alias table
\* gives the same name as cleaning the value the table maps it to.
C1_AliasClosure ==
  (pc = "cleaned" /\ InTable(SONG_NAME_MAPPINGS, song))
    => cleaned = clean_song_name(Lookup(SONG_NAME_MAPPINGS, song))

\* C2 (as claimed): idempotence on canonical names.  A name that
\* clean_song_name returns is returned unchanged when cleaned again.
C2_CleanIdempotent ==
  (pc = "cleaned" /\ cleaned # None) => clean_song_name(cleaned) = cleaned

\* C9: pronoun folding.  Replacing pronoun variants of the raw fragment by
\* other variants never changes what clean_song_name returns.
C9_PronounFolding ==
  pc = "cleaned" => \A t \in PronounVariants(song) : clean_song_name(t) = cleaned

\* C9 witness: the fragment of the spec's example, written with the variant
\* u4f60, has been cleaned to the name written with u7962.
C9_Witness ==
  /\ pc = "cleaned"
  /\ song = <<"u9858", "u4f60", "u570b", "u5ea6", "u5f70", "u986f">>
  /\ cleaned = <<"u9858", "u7962", "u570b", "u5ea6", "u5f70", "u986f">>

\* The curly quote characters and the straight quote each stands for.
StraightQuote(c) ==
  IF c \in {"u201c", "u201d"} THEN "\""
  ELSE IF c \in {"u2018", "u2019"} THEN "'"
  ELSE c

\* A text with every quote character in the straight style: two texts differ
\* only in the style of their quotes when this gives the same text for both.
StraightQuotes(s) == [i \in DOMAIN s |-> StraightQuote(s[i])]

\* C22 (as claimed): quote normalization.  A fragment that differs from the
\* cleaned fragment only in the style of its quote characters is cleaned to
\* the same name, and the name holds no curly quote.
C22_QuoteNormalization ==
  pc = "cleaned" =>
    /\ \A t \in InputSongs :
         StraightQuotes(t) = StraightQuotes(song) => clean_song_name(t) = cleaned
    /\ cleaned # None => StraightQuotes(cleaned) = cleaned

\* The characters clean_song_name folds: the two pronoun variants it
\* replaces and the full-width punctuation marks.
UnfoldedCharacters ==
  {"u4f60", "u88ae", "uff08", "uff09", "uff0c", "u3002", "uff1a", "uff01", "uff1f"}

\* C26 (as claimed): a name clean_song_name returns holds no unfolded pronoun
\* variant and no full-width punctuation mark, so that two returned names
\* that are equal once folded are the same name.
C26_FullyFolded ==
  (pc = "cleaned" /\ cleaned # None) =>
    /\ \A i \in DOMAIN cleaned : cleaned[i] \notin UnfoldedCharacters
    /\ \A t \in InputSongs : \A other \in {clean_song_name(t)} :
         (other # None /\ FoldPunctuation(FoldPronouns(other))
                            = FoldPunctuation(FoldPronouns(cleaned)))
           => other = cleaned

-----------------------------------------------------------------------------
(* SpecCompare: normalize_for_comparison applied to a text, then to its    *)
(* own result.                                                             *)

InitCompare ==
  /\ pc = "normalize_for_comparison"
  /\ text \in InputTexts
  /\ key = <<>>
  /\ key2 = <<>>
  /\ IdleClean /\ IdleSplit /\ IdleLoad /\ IdleCopyright /\ IdleStats

NormalizeForComparison ==
  /\ pc = "normalize_for_comparison"
  /\ key' = normalize_for_comparison(text)
  /\ pc' = "normalized"
  /\ UNCHANGED <<text, key2, notCompare>>

NormalizeAgain ==
  /\ pc = "normalized"
  /\ key2' = normalize_for_comparison(key)
  /\ pc' = "normalized twice"
  /\ UNCHANGED <<text, key, notCompare>>

NextCompare == NormalizeForComparison \/ NormalizeAgain

SpecCompare == InitCompare /\ [][NextCompare]_vars

\* C3: normalize_for_comparison is idempotent.  Normalizing a Comparison Key
\* again gives the same key.
C3_NormalizeIdempotent == pc = "normalized twice" => key2 = key

\* C3 witness: a text that normalization changed (so the key is not the
\* text) has been normalized twice.
C3_Witness ==
  /\ pc = "normalized twice"
  /\ key # <<>>
  /\ key # text
  /\ \E i \in DOMAIN text : text[i] \in {"u4f60", "u88ae"}

-----------------------------------------------------------------------------
(* SpecSplit: one call of split_combined_songs, its filter loop one        *)
(* iteration a step.                                                       *)

InitSplit ==
  /\ pc = "split_combined_songs"
  /\ song_text \in InputCells
  /\ parts = <<>>
  /\ filtered = <<>>
  /\ IdleClean /\ IdleCompare /\ IdleLoad /\ IdleCopyright /\ IdleStats

\* An empty text returns at once.
SplitReturnEmpty ==
  /\ pc = "split_combined_songs"
  /\ ~Truthy(song_text)
  /\ pc' = "split"
  /\ UNCHANGED <<splitVars, notSplit>>

\* The communion marker is removed and the text is split on its delimiters.
SplitParts ==
  /\ pc = "split_combined_songs"
  /\ Truthy(song_text)
  /\ song_text' = RemoveAll("+ Communion", song_text)
  /\ parts' = SplitOnDelimiters(song_text')
  /\ pc' = "filter"
  /\ UNCHANGED <<filtered, notSplit>>

\* for part in parts
FilterNextPart ==
  /\ pc = "filter"
  /\ parts # <<>>
  /\ filtered' = filtered \o FilterPart(Head(parts))
  /\ parts' = Tail(parts)
  /\ UNCHANGED <<pc, song_text, notSplit>>

SplitReturn ==
  /\ pc = "filter"
  /\ parts = <<>>
  /\ pc' = "split"
  /\ UNCHANGED <<splitVars, notSplit>>

NextSplit == SplitReturnEmpty \/ SplitParts \/ FilterNextPart \/ SplitReturn

SpecSplit == InitSplit /\ [][NextSplit]_vars

\* C8 (as claimed): every fragment split_combined_songs returns is non-empty
\* and is not purely a run of verse/chorus markers [VC]<digits>.
C8_NoMarkerFragment ==
  pc = "split" =>
    \A i \in DOMAIN filtered : filtered[i] # <<>> /\ ~PureMarkers(filtered[i])

-----------------------------------------------------------------------------
(* SpecLoad: load_csv_data on the rows of a file: consolidate_multiline_   *)
(* rows, one row of its loop a step, then the service builder, one         *)
(* consolidated row a step.                                                *)

InitLoad ==
  /\ pc = "load_csv_data"
  /\ reader \in InputFiles
  /\ rows = <<>>
  /\ row_i = 0
  /\ current_row = <<>>
  /\ consolidated = <<>>
  /\ load_i = 0
  /\ services = <<>>
  /\ IdleClean /\ IdleCompare /\ IdleSplit /\ IdleCopyright /\ IdleStats

\* rows = list(reader); consolidate_multiline_rows(rows) is entered.
ReadRows ==
  /\ pc = "load_csv_data"
  /\ rows' = reader
  /\ pc' = "consolidate"
  /\ UNCHANGED <<reader, row_i, current_row, consolidated, load_i, services, notLoad>>

\* A dated row: the record in progress is emitted and the row opens the next.
ConsolidateDatedRow ==
  /\ pc = "consolidate"
  /\ row_i < Len(rows)
  /\ HasDate(Pad(rows[row_i + 1]))
  /\ rows' = [rows EXCEPT ![row_i + 1] = Pad(@)]
  /\ consolidated' = IF current_row # <<>> THEN Append(consolidated, current_row)
                                          ELSE consolidated
  /\ current_row' = Pad(rows[row_i + 1])
  /\ row_i' = row_i + 1
  /\ UNCHANGED <<pc, reader, load_i, services, notLoad>>

\* A continuation row: its non-empty cells are merged into the record in
\* progress; a row before the first dated row is dropped.
ConsolidateContinuationRow ==
  /\ pc = "consolidate"
  /\ row_i < Len(rows)
  /\ ~HasDate(Pad(rows[row_i + 1]))
  /\ rows' = [rows EXCEPT ![row_i + 1] = Pad(@)]
  /\ current_row' = IF current_row # <<>> THEN MergeRow(current_row, Pad(rows[row_i + 1]))
                                         ELSE current_row
  /\ IF current_row # <<>> /\ OverflowColumn(current_row, Pad(rows[row_i + 1])) > 0
       THEN pc' = "IndexError" /\ UNCHANGED row_i
       ELSE pc' = pc /\ row_i' = row_i + 1
  /\ UNCHANGED <<reader, consolidated, load_i, services, notLoad>>

\* After the loop the record in progress is flushed and the rows returned.
ConsolidateReturn ==
  /\ pc = "consolidate"
  /\ row_i = Len(rows)
  /\ consolidated' = IF current_row # <<>> THEN Append(consolidated, current_row)
                                          ELSE consolidated
  /\ pc' = "build services"
  /\ UNCHANGED <<reader, rows, row_i, current_row, load_i, services, notLoad>>

\* A service builder that gives up at the first row it cannot use.
LoadRowOrStop ==
  /\ pc = "build services"
  /\ load_i < Len(consolidated)
  /\ services' = services \o LoadedFrom(consolidated[load_i + 1])
  /\ load_i' = IF LoadedFrom(consolidated[load_i + 1]) = <<>>
                 THEN Len(consolidated) ELSE load_i + 1
  /\ UNCHANGED <<pc, reader, rows, row_i, current_row, consolidated, notLoad>>

\* for row in consolidated_rows: the row is skipped or its record appended.
LoadRow ==
  /\ pc = "build services"
  /\ load_i < Len(consolidated)
  /\ services' = services \o LoadedFrom(consolidated[load_i + 1])
  /\ load_i' = load_i + 1
  /\ UNCHANGED <<pc, reader, rows, row_i, current_row, consolidated, notLoad>>

LoadReturn ==
  /\ pc = "build services"
  /\ load_i = Len(consolidated)
  /\ pc' = "loaded"
  /\ UNCHANGED <<loadVars, notLoad>>

NextLoad ==
  \/ ReadRows
  \/ ConsolidateDatedRow
  \/ ConsolidateContinuationRow
  \/ ConsolidateReturn
  \/ LoadRow
  \/ LoadReturn

SpecLoad == InitLoad /\ [][NextLoad]_vars

\* C4 (as claimed): consolidate_multiline_rows raises on no input, whatever
\* the lengths of its rows.
C4_NoFatalError == pc # "IndexError"

\* The rows of a file that open a record: those whose first cell is not
\* empty after trimming.
IsDatedRow(rs, i) == Len(rs[i]) >= 1 /\ Strip(rs[i][1]) # <<>>

\* Cell c (from 0) of a raw row, empty where the row has no such cell.
RawCell(row, c) == IF c < Len(row) THEN row[c + 1] ELSE <<>>

\* The claim's rule for one continuation cell: skipped when empty, the cell's
\* value when nothing is accumulated, else appended after a single space.
Joined(acc, cell) ==
  IF Strip(cell) = <<>> THEN acc
  ELSE IF acc = <<>> THEN Strip(cell)
  ELSE acc \o <<" ">> \o Strip(cell)

\* acc followed by cell c of the continuation rows from row j on.
RECURSIVE Accumulated(_, _, _, _)
Accumulated(rs, j, c, acc) ==
  IF j > Len(rs) \/ IsDatedRow(rs, j) THEN acc
  ELSE Accumulated(rs, j + 1, c, Joined(acc, RawCell(rs[j], c)))

\* The record the claim has dated row d emit.
ClaimedRecord(rs, d) ==
  [k \in 1..(IF Len(rs[d]) < PaddedWidth THEN PaddedWidth ELSE Len(rs[d])) |->
     IF k = 1 THEN rs[d][1]
     ELSE Accumulated(rs, d + 1, k - 1, RawCell(rs[d], k - 1))]

\* The indices of the dated rows among rows i.. of the file, in order.
RECURSIVE DatedFrom(_, _)
DatedFrom(rs, i) ==
  IF i > Len(rs) THEN <<>>
  ELSE (IF IsDatedRow(rs, i) THEN <<i>> ELSE <<>>) \o DatedFrom(rs, i + 1)

ClaimedRecords(rs, dated) == [n \in DOMAIN dated |-> ClaimedRecord(rs, dated[n])]

\* C5 (as claimed): consolidate_multiline_rows returns exactly one row per
\* dated input row, in input order and with the last record flushed, each
\* cell from column 1 on being the dated row's cell followed by the
\* non-empty cells of its continuation rows, joined by single spaces.
C5_Consolidation ==
  pc \in {"IndexError", "build services", "loaded"} =>
    /\ pc # "IndexError"
    /\ consolidated = ClaimedRecords(reader, DatedFrom(reader, 1))

\* C6 (as claimed): a dated raw row of fewer than 16 columns produces no
\* service record, so there are at most as many records as dated raw rows of
\* 16 columns or more.
C6_ShortRowSkipped ==
  pc = "loaded" =>
    Len(services) <= Cardinality({i \in DOMAIN reader :
                                   IsDatedRow(reader, i) /\ Len(reader[i]) >= MinColumns})

\* A consolidated row whose date parses and whose normalized leader is not
\* empty.
DateParses(row) == ParseDate(Strip(Cell(row, 0))) # NoDate

LeaderGiven(row) == Truthy(normalize_leader_name(Cell(row, 1)))

Accepted(row) == DateParses(row) /\ LeaderGiven(row)

RecordsOf(accepted) == [n \in DOMAIN accepted |-> BuildService(accepted[n])]

\* The columns of the three song groups of a row.
Praise1Columns == {3, 5, 7}

Praise2Columns == {9, 11, 13}

PeaceColumns == {15}

SongColumns == Praise1Columns \cup Praise2Columns \cup PeaceColumns

\* The fragments split_combined_songs gives for a song cell of a row.
Fragments(row, idx) ==
  IF StrippedCell(row, idx) = <<>> THEN <<>>
  ELSE split_combined_songs(StrippedCell(row, idx))

\* The fragments of every column of a row up to the peace column: those of
\* column idx are at idx + 1.
RowFragments(row) == ListFrom([c \in 1..PaddedWidth |-> Fragments(row, c - 1)])

\* The fragments of the given columns that clean_song_name keeps, as
\* <<column, position>> pairs.
KeptFragments(fragments, columns) ==
  UNION {{<<idx, m>> : m \in {n \in DOMAIN fragments[idx + 1] :
                                 clean_song_name(fragments[idx + 1][n]) # None}} :
           idx \in columns}

\* What clean_song_name returns for the fragments of the song columns.
CleanedFragments(fragments) ==
  {clean_song_name(fragment) :
     fragment \in UNION {{fragments[idx + 1][m] : m \in DOMAIN fragments[idx + 1]} :
                          idx \in SongColumns}}

\* The row of the k-th record: the k-th consolidated row that is accepted.
RowOfRecord(k) == SelectSeq(consolidated, Accepted)[k]

\* C20: in every record built, all_songs is praise1 ++ praise2 ++ peace;
\* every song of the three lists is what clean_song_name returns for a
\* fragment of a song cell of the record's row, is not empty, and is not,
\* case-insensitively, a non-song marker; and each list holds one song for
\* every fragment of its columns that clean_song_name keeps, repeated songs
\* included.
C20_ServiceRecordInvariant ==
  \A k \in DOMAIN services : \A fragments \in {RowFragments(RowOfRecord(k))} :
    /\ services[k].all_songs = services[k].praise1 \o services[k].praise2 \o services[k].peace
    /\ \A results \in {CleanedFragments(fragments)} :
         \A n \in DOMAIN services[k].all_songs :
           /\ services[k].all_songs[n] \in results
           /\ services[k].all_songs[n] # <<>>
           /\ services[k].all_songs[n] # None
           /\ Lower(services[k].all_songs[n]) \notin NonSongMarkers
    /\ Len(services[k].praise1) = Cardinality(KeptFragments(fragments, Praise1Columns))
    /\ Len(services[k].praise2) = Cardinality(KeptFragments(fragments, Praise2Columns))
    /\ Len(services[k].peace) = Cardinality(KeptFragments(fragments, PeaceColumns))

\* C20 witness: a record of a row with a "Baptism" fragment, which is in no
\* list, and with the same song in two cells, which praise1 holds twice.
C20_Witness ==
  \E k \in DOMAIN services :
    /\ \E idx \in SongColumns : \E m \in DOMAIN Fragments(RowOfRecord(k), idx) :
         Lower(Fragments(RowOfRecord(k), idx)[m]) \in NonSongMarkers
    /\ \E m, n \in DOMAIN services[k].praise1 :
         m < n /\ services[k].praise1[m] = services[k].praise1[n]
    /\ services[k].praise2 # <<>> /\ services[k].peace # <<>>

\* The delimiters of joint leadership.
LeaderDelimiters == {"/", "&"}

\* The longest beginning of a text that holds no delimiter: the text before
\* the first '/' or '&', the whole text when it holds none.
BeforeDelimiter(s) ==
  SubSeq(s, 1, CHOOSE n \in 0..Len(s) :
                 /\ \A i \in 1..n : s[i] \notin LeaderDelimiters
                 /\ n < Len(s) => s[n + 1] \in LeaderDelimiters)

\* What remains of a leader cell: the annotations and the role prefix
\* removed, the text before the first delimiter, trimmed.
FirstListedLeader(cell) ==
  Strip(BeforeDelimiter(StripRolePrefix(RemoveAll("(annotation)", cell))))

\* C23: the leader of every record is the first-listed leader of the leader
\* cell of its row: it holds no '/' and no '&', has no whitespace at either
\* end and is not empty; and the rows with a date of which nothing remains
\* for the leader leave no record.
C23_FirstListedLeader ==
  /\ \A k \in DOMAIN services :
       /\ services[k].praise_leader = FirstListedLeader(Cell(RowOfRecord(k), 1))
       /\ \A i \in DOMAIN services[k].praise_leader :
            services[k].praise_leader[i] \notin LeaderDelimiters
       /\ Strip(services[k].praise_leader) = services[k].praise_leader
       /\ services[k].praise_leader # <<>>
  /\ pc = "loaded" =>
       Len(services)
         = Cardinality({i \in DOMAIN consolidated :
                          /\ DateParses(consolidated[i])
                          /\ FirstListedLeader(Cell(consolidated[i], 1)) # <<>>})

\* C23 witness: the load has ended with a record whose leader cell names two
\* leaders after a role prefix, and a dated row left out because its leader
\* cell holds an annotation alone.
C23_Witness ==
  /\ pc = "loaded"
  /\ \E k \in DOMAIN services :
       /\ Cell(RowOfRecord(k), 1) = <<"P", "1", ":", " ", "J", "o", " ", "/", " ", "A", "m", "y">>
       /\ services[k].praise_leader = <<"J", "o">>
  /\ \E i \in DOMAIN consolidated :
       /\ DateParses(consolidated[i])
       /\ Cell(consolidated[i], 1) = <<"(", "H", "C", ")">>
       /\ \A k \in DOMAIN services : RowOfRecord(k) # consolidated[i]

\* C7: row-level skip.  The services are the records of exactly the
\* consolidated rows whose date parses and whose normalized leader is not
\* empty, in the order of the rows; each record is that of its own row
\* alone, and the other rows leave no record.
C7_RowLevelSkip ==
  pc = "loaded" => services = RecordsOf(SelectSeq(consolidated, Accepted))

\* C7 witness: the load has ended with a row skipped for its date and a row
\* skipped for its leader, and a record built from a row after a skipped one.
C7_Witness ==
  /\ pc = "loaded"
  /\ \E i \in DOMAIN consolidated : ~DateParses(consolidated[i])
  /\ \E i \in DOMAIN consolidated :
       DateParses(consolidated[i]) /\ ~LeaderGiven(consolidated[i])
  /\ \E i, j \in DOMAIN consolidated :
       i < j /\ ~Accepted(consolidated[i]) /\ Accepted(consolidated[j])
  /\ services # <<>>

\* consolidate_publisher_name: the canonical publisher of the mapping table,
\* or the name itself.
consolidate_publisher_name(publisher) ==
  IF InTable(PUBLISHER_MAPPINGS, publisher) THEN Lookup(PUBLISHER_MAPPINGS, publisher)
  ELSE publisher

\* Python's "sub in s" on strings; the empty text is in every text.
Contains(s, sub) == \E i \in 1..(Len(s) - Len(sub) + 1) : HasAt(s, i, sub)

\* The metadata table is a dict, held as its <<song, owner>> items in
\* insertion order; these are its normalized songs.
MetadataKeys(md) == ListFrom([i \in DOMAIN md |-> normalize_for_comparison(md[i][1])])

PublisherAt(md, i) == consolidate_publisher_name(md[i][2])

\* normalize(excluded_song), normalize(static_song), normalize(canonical_name)
\* and normalize(original_variant) of the entries of the tables: the same
\* at every call.
ExcludedKeys == {normalize_for_comparison(excluded_song) : excluded_song \in SONGS_WITHOUT_PUBLISHER}

StaticKeys ==
  ListFrom([i \in DOMAIN STATIC_SONG_COPYRIGHT_MAPPINGS |->
              normalize_for_comparison(STATIC_SONG_COPYRIGHT_MAPPINGS[i][1])])

CanonicalKeys ==
  ListFrom([a \in DOMAIN SONG_NAME_MAPPINGS |->
              normalize_for_comparison(SONG_NAME_MAPPINGS[a][2])])

VariantKeys ==
  ListFrom([a \in DOMAIN SONG_NAME_MAPPINGS |->
              normalize_for_comparison(SONG_NAME_MAPPINGS[a][1])])

\* Strategy -1: the exclusion set.
Excluded(normalized_song) == normalized_song \in ExcludedKeys

\* Strategy 0: the static overrides whose key is the song's.
StaticMatches(normalized_song) ==
  {i \in DOMAIN STATIC_SONG_COPYRIGHT_MAPPINGS : StaticKeys[i] = normalized_song}

\* Strategy 1: exact match.
ExactMatches(normalized_song, keys) == {i \in DOMAIN keys : normalized_song = keys[i]}

\* Strategy 2: the song contains a metadata song.
SubstringMatches(normalized_song, keys) ==
  {i \in DOMAIN keys : keys[i] # <<>> /\ Contains(normalized_song, keys[i])}

\* Strategy 3: a metadata song contains the song.
ReverseMatches(normalized_song, keys) ==
  {i \in DOMAIN keys : normalized_song # <<>> /\ Contains(keys[i], normalized_song)}

\* Strategy 4: the metadata songs that contain, or are contained in, a raw
\* variant of the alias table.
VariantMatches(normalized_variant, keys) ==
  {i \in DOMAIN keys :
     Contains(normalized_variant, keys[i]) \/ Contains(keys[i], normalized_variant)}

\* The alias rows whose canonical name has the song's key and whose variant
\* matches some metadata song.
AliasRows(normalized_song, keys) ==
  {a \in DOMAIN SONG_NAME_MAPPINGS :
     /\ CanonicalKeys[a] = normalized_song
     /\ VariantMatches(VariantKeys[a], keys) # {}}

AliasPublisher(md, keys, a) ==
  IF a = 0 THEN None
  ELSE PublisherAt(md, Least(VariantMatches(VariantKeys[a], keys)))

\* The publisher of the first of the given matches, or what the later
\* strategies give.
FirstOr(md, matches, later) == IF matches # {} THEN PublisherAt(md, Least(matches)) ELSE later

\* Strategies 1 to 4 with the substring strategy run before the exact match.
FromMetadataSubstringFirst(normalized_song, md, keys) ==
  FirstOr(md, SubstringMatches(normalized_song, keys),
    FirstOr(md, ExactMatches(normalized_song, keys),
      FirstOr(md, ReverseMatches(normalized_song, keys),
        AliasPublisher(md, keys, Least(AliasRows(normalized_song, keys))))))

\* Strategies 1 to 4, each loop returning at its first match.
FromMetadata(normalized_song, md, keys) ==
  FirstOr(md, ExactMatches(normalized_song, keys),
    FirstOr(md, SubstringMatches(normalized_song, keys),
      FirstOr(md, ReverseMatches(normalized_song, keys),
        AliasPublisher(md, keys, Least(AliasRows(normalized_song, keys))))))

StaticPublisher(i) == consolidate_publisher_name(STATIC_SONG_COPYRIGHT_MAPPINGS[i][2])

\* The static table consulted only when no metadata song has the song's key.
FromStaticAfterExact(normalized_song, md, keys, static) ==
  IF static # {} /\ ExactMatches(normalized_song, keys) = {}
    THEN StaticPublisher(Least(static))
  ELSE FromMetadata(normalized_song, md, keys)

FromStatic(normalized_song, md, keys, static) ==
  IF static # {} THEN StaticPublisher(Least(static))
  ELSE FromMetadata(normalized_song, md, keys)

\* The tiers with the exclusion set consulted after the static table and the
\* exact metadata match.
MatchTiersExclusionLast(normalized_song, md, keys) ==
  IF StaticMatches(normalized_song) # {} \/ ExactMatches(normalized_song, keys) # {}
  THEN FromStatic(normalized_song, md, keys, StaticMatches(normalized_song))
  ELSE IF Excluded(normalized_song) THEN None
  ELSE FromMetadata(normalized_song, md, keys)

\* The tiers in the order of the code: exclusion set, static table, metadata.
MatchTiers(normalized_song, md, keys) ==
  IF Excluded(normalized_song) THEN None
  ELSE FromStatic(normalized_song, md, keys, StaticMatches(normalized_song))

\* map_song_to_copyright, given the normalized songs of the metadata table.
MappedWith(name, md, keys) ==
  IF md = <<>> THEN None
  ELSE MatchTiers(normalize_for_comparison(name), md, keys)

map_song_to_copyright(name, md) == MappedWith(name, md, MetadataKeys(md))

\* ---- Specification of map_song_to_copyright ----

MaxEntries == 2

\* Song names: the excluded song and a respelling of it, songs of the static
\* table, songs met exactly, as a substring, as a superstring and through an
\* alias, and an unknown song.  The callers pass names taken from the service
\* records, which are never empty.
InputNames ==
  { <<"C", "h", "r", "i", "s", "t", "m", "a", "s", "2", "0", "2", "5", "uff08", "u4fe1", "u773e", "u9f4a", "u5230", "u4e3b", "u524d", ",", " ", "u7962", "u662f", "u5f4c", "u8cfd", "u4e9e", ",", " ", "u7962", "u914d", "u5f97", ",", " ", "u541b", "u5c0a", "u7fa9", "u50d5", ",", " ", "u597d", "u4fe1", "u606f", ",", " ", "u795e", "u540c", "u5728", ",", " ", "u69ae", "u7f8e", "u5c6c", "u7962", "uff09">>,
    <<"C", "H", "R", "I", "S", "T", "M", "A", "S", "2", "0", "2", "5", "(", "u4fe1", "u773e", "u9f4a", "u5230", "u4e3b", "u524d", ",", "u7962", "u662f", "u5f4c", "u8cfd", "u4e9e", ",", "u7962", "u914d", "u5f97", ",", "u541b", "u5c0a", "u7fa9", "u50d5", ",", "u597d", "u4fe1", "u606f", ",", "u795e", "u540c", "u5728", ",", "u69ae", "u7f8e", "u5c6c", "u7962", ")">>,
    <<"u5c0f", "u5c0f", "u7684", "u96d9", "u624b">>,
    <<"u4ecd", "u7136", " ", "u656c", "u62dc">>,
    <<"C", "o", "r", "n", "e", "r", "s", "t", "o", "n", "e">>,
    <<"C", "o", "r", "n", "e", "r", "s", "t", "o", "n", "e", " ", "L", "i", "v", "e">>,
    <<"C", "o", "r", "n", "e", "r">>,
    <<"O", "c", "e", "a", "n", " ", "W", "i", "l", "l", " ", "P", "a", "r", "t">>,
    <<"u9858", "u4f60", "u5e73", "u5b89">>,
    <<"Z", "z", "z">> }

\* Metadata items: a respelling of the excluded song, songs of the index, a
\* song of the static table, and owners the publisher table consolidates.
MetadataMenu ==
  { <<<<" ", "c", "h", "r", "i", "s", "t", "m", "a", "s", " ", "2", "0", "2", "5", "uff08", "u4fe1", "u773e", "u9f4a", "u5230", "u4e3b", "u524d", ",", " ", "u7962", "u662f", "u5f4c", "u8cfd", "u4e9e", ",", " ", "u7962", "u914d", "u5f97", ",", " ", "u541b", "u5c0a", "u7fa9", "u50d5", ",", " ", "u597d", "u4fe1", "u606f", ",", " ", "u795e", "u540c", "u5728", ",", " ", "u69ae", "u7f8e", "u5c6c", "u7962", "uff09">>,
      <<"S", "t", "r", "e", "a", "m", " ", "o", "f", " ", "P", "r", "a", "i", "s", "e">>>>,
    <<<<"C", "o", "r", "n", "e", "r", "s", "t", "o", "n", "e">>,
      <<"H", "i", "l", "l", "s", "o", "n", "g">>>>,
    <<<<"u6d77", "u6703", "u5206", "u958b">>,
      <<"A", "l", "a", "n", " ", "Y", "u">>>>,
    <<<<"u5c0f", "u5c0f", "u7684", "u96d9", "u624b">>,
      <<"F", "l", "o", "w", " ", "C", "h", "u", "r", "c", "h">>>>,
    <<<<"C", "o", "r", "n", "e", "r", "s", "t", "o", "n", "e", " ", "L", "i", "v", "e">>,
      <<"S", "t", "e", "a", "m", " ", "o", "f", " ", "P", "r", "a", "i", "s", "e">>>>,
    <<<<"u9858", "u60a8", "u5e73", "u5b89", " ", "(", "L", "i", "v", "e", ")">>,
      <<"W">>>> }

Songs(md) == {md[i][1] : i \in DOMAIN md}

\* The tables of at most n items with distinct songs.
RECURSIVE Tables(_)
Tables(n) ==
  IF n = 0 THEN {<<>>}
  ELSE LET shorter == Tables(n - 1)
       IN  shorter \cup {Append(md, item) : md \in shorter, item \in MetadataMenu}

InputMetadata == {md \in Tables(MaxEntries) : Cardinality(Songs(md)) = Len(md)}

InitCopyright ==
  /\ pc = "map_song_to_copyright"
  /\ song_name \in InputNames
  /\ metadata \in InputMetadata
  /\ copyright = None
  /\ IdleClean /\ IdleCompare /\ IdleSplit /\ IdleLoad /\ IdleStats

MapSongToCopyright ==
  /\ pc = "map_song_to_copyright"
  /\ copyright' = map_song_to_copyright(song_name, metadata)
  /\ pc' = "mapped"
  /\ UNCHANGED <<song_name, metadata, notCopyright>>

NextCopyright == MapSongToCopyright

SpecCopyright == InitCopyright /\ [][NextCopyright]_vars

\* C10: publisher tier precedence.  For every metadata table, a song whose
\* comparison key is that of an entry of SONGS_WITHOUT_PUBLISHER is mapped to
\* no publisher, also when a metadata entry has the same key.
C10_ExclusionWins ==
  pc = "mapped" /\ Excluded(normalize_for_comparison(song_name)) => copyright = None

\* C10 witness: an excluded song, spelled otherwise than the entry of the
\* set, has been mapped against a table holding an entry of the same key.
C10_Witness ==
  /\ pc = "mapped"
  /\ Excluded(normalize_for_comparison(song_name))
  /\ song_name \notin SONGS_WITHOUT_PUBLISHER
  /\ ExactMatches(normalize_for_comparison(song_name), MetadataKeys(metadata)) # {}
  /\ copyright = None

\* The comparison key of the song being mapped, and the keys of the table.
SongKey == normalize_for_comparison(song_name)

TableKeys == MetadataKeys(metadata)

\* The static entries that have the song's key.
StaticEntries ==
  UNION {{i \in DOMAIN STATIC_SONG_COPYRIGHT_MAPPINGS :
            normalize_for_comparison(STATIC_SONG_COPYRIGHT_MAPPINGS[i][1]) = k} :
           k \in {SongKey}}

\* The song is attributed to the alias-resolved publisher of every static
\* entry that has its key.
StaticDecides ==
  \A i \in StaticEntries :
    copyright = consolidate_publisher_name(STATIC_SONG_COPYRIGHT_MAPPINGS[i][2])

\* C11 (as claimed): for every metadata table, the empty one included, a
\* song with the key of a static entry and of no exclusion entry is
\* attributed to the alias-resolved publisher of that static entry.
C11_StaticForEveryTable ==
  pc = "mapped" /\ StaticEntries # {} /\ ~Excluded(SongKey) => StaticDecides

\* C11 (amended): for every metadata table that is not empty, a song with the
\* key of a static entry and of no exclusion entry is attributed to the
\* alias-resolved publisher of that static entry, whatever the table holds.
C11_StaticOverride ==
  pc = "mapped" /\ metadata # <<>> /\ StaticEntries # {} /\ ~Excluded(SongKey)
    => StaticDecides

\* C11 witness: a song of the static table whose publisher the publisher
\* table resolves has been mapped against a table that gives the same song
\* another owner.
C11_Witness ==
  /\ pc = "mapped"
  /\ \E i \in StaticEntries :
       /\ consolidate_publisher_name(STATIC_SONG_COPYRIGHT_MAPPINGS[i][2])
            # STATIC_SONG_COPYRIGHT_MAPPINGS[i][2]
       /\ copyright = consolidate_publisher_name(STATIC_SONG_COPYRIGHT_MAPPINGS[i][2])
  /\ \E m \in DOMAIN metadata :
       TableKeys[m] = SongKey /\ consolidate_publisher_name(metadata[m][2]) # copyright

\* The first table entry among the given ones decides the publisher.
FirstDecides(entries) ==
  \E i \in entries :
    /\ \A j \in entries : i <= j
    /\ copyright = consolidate_publisher_name(metadata[i][2])

\* C12: the metadata tiers run in strict order, first hit wins.  When no
\* exclusion or static entry matches, the first entry with the song's key
\* decides; otherwise the first entry whose key is a substring of the song's;
\* otherwise the first entry whose key contains the song's.
C12_MetadataTierOrder ==
  pc = "mapped" /\ metadata # <<>> /\ ~Excluded(SongKey) /\ StaticEntries = {} =>
    \A k \in {SongKey} : \A keys \in {TableKeys} :
      IF \E i \in DOMAIN metadata : keys[i] = k
        THEN FirstDecides({i \in DOMAIN metadata : keys[i] = k})
      ELSE IF \E i \in DOMAIN metadata : Contains(k, keys[i])
        THEN FirstDecides({i \in DOMAIN metadata : Contains(k, keys[i])})
      ELSE (\E i \in DOMAIN metadata : Contains(keys[i], k))
             => FirstDecides({i \in DOMAIN metadata : Contains(keys[i], k)})

\* C12 witness: the second entry of the table has the song's key and decides,
\* though the first entry matches as a substring and has another owner.
C12_Witness ==
  /\ pc = "mapped"
  /\ ~Excluded(SongKey) /\ StaticEntries = {}
  /\ Len(metadata) = 2
  /\ TableKeys[1] # SongKey /\ Contains(SongKey, TableKeys[1])
  /\ TableKeys[2] = SongKey
  /\ copyright = consolidate_publisher_name(metadata[2][2])
  /\ copyright # consolidate_publisher_name(metadata[1][2])

-----------------------------------------------------------------------------
(* Strings, sets, dicts and Counters of the statistics functions.          *)

\* The printable ASCII characters in code-point order, from 32 on.
Ascii ==
  <<
     " ", "!", "\"", "#", "$", "%", "&", "'", "(", ")", "*", "+", ",", "-", ".", "/",
     "0", "1", "2", "3", "4", "5", "6", "7", "8", "9", ":", ";", "<", "=", ">", "?",
     "@", "A", "B", "C", "D", "E", "F", "G", "H", "I", "J", "K", "L", "M", "N", "O",
     "P", "Q", "R", "S", "T", "U", "V", "W", "X", "Y", "Z", "[", "\\", "]", "^", "_",
     "u0060", "a", "b", "c", "d", "e", "f", "g", "h", "i", "j", "k", "l", "m", "n", "o",
     "p", "q", "r", "s", "t", "u", "v", "w", "x", "y", "z", "{", "|", "}", "~"
  >>

\* The code point of a character: Python orders strings by code point.  The
\* characters outside ASCII are those of the songs of the inputs and of the
\* publishers of PUBLISHER_MAPPINGS.
CodePoint(c) ==
  CASE c = "u623f" -> 25151
    [] c = "u89d2" -> 35282
    [] c = "u57fa" -> 22522
    [] c = "u77f3" -> 30707
    [] c = "u7962" -> 31074
    [] c = "u4f60" -> 20320
    [] c = "u5c0f" -> 23567
    [] c = "u7684" -> 30340
    [] c = "u96d9" -> 38617
    [] c = "u624b" -> 25163
    [] c = "u4e8b" -> 20107
    [] c = "u4f59" -> 20313
    [] c = "u4f7f" -> 20351
    [] c = "u5354" -> 21332
    [] c = "u5718" -> 22296
    [] c = "u5b50" -> 23376
    [] c = "u5de5" -> 24037
    [] c = "u5f92" -> 24466
    [] c = "u5f97" -> 24471
    [] c = "u66fe" -> 26366
    [] c = "u6703" -> 26371
    [] c = "u6a02" -> 27138
    [] c = "u6e2f" -> 28207
    [] c = "u7763" -> 30563
    [] c = "u8072" -> 32882
    [] c = "u86cb" -> 34507
    [] c = "u8def" -> 36335
    [] c = "u9716" -> 38678
    [] c = "u97f3" -> 38899
    [] c = "u9999" -> 39321
    [] c = "u9e79" -> 40569
    [] c = "u9e9f" -> 40607
    [] c = "u9ea5" -> 40613
    [] OTHER -> 31 + (CHOOSE i \in DOMAIN Ascii : Ascii[i] = c)

\* a < b on str: at the first position where they differ, or a proper prefix.
RECURSIVE StrLess(_, _)
StrLess(a, b) ==
  IF b = <<>> THEN FALSE
  ELSE IF a = <<>> THEN TRUE
  ELSE IF Head(a) = Head(b) THEN StrLess(Tail(a), Tail(b))
  ELSE CodePoint(Head(a)) < CodePoint(Head(b))

\* sorted(S) for a set of strings.
\* A sorted list with one more string, put after the strings below it.
InsertAt(list, a, k) == SubSeq(list, 1, k) \o <<a>> \o SubSeq(list, k + 1, Len(list))

Insert(list, a) == InsertAt(list, a, Cardinality({i \in DOMAIN list : StrLess(list[i], a)}))

RECURSIVE SortedWith(_, _)
SortedWith(S, a) == Insert(IF S = {a} THEN <<>> ELSE SortedWith(S \ {a}, CHOOSE b \in S \ {a} : TRUE), a)

Sorted(S) == IF S = {} THEN <<>> ELSE SortedWith(S, CHOOSE a \in S : TRUE)

\* The elements of a list, as a set.
Elements(list) == {list[i] : i \in DOMAIN list}

\* A dict or Counter is the sequence of its <<key, value>> items in
\* insertion order.
Keys(dict) == {dict[i][1] : i \in DOMAIN dict}

IndexOf(dict, k) == Least({i \in DOMAIN dict : dict[i][1] = k})

\* dict[k], for a key the dict holds.
Get(dict, k) == dict[IndexOf(dict, k)][2]

\* The positions at which a list holds an element for the first time: the
\* order in which a dict filled from the list holds its keys.
FirstIndices(list) ==
  SelectSeq([i \in DOMAIN list |-> i], LAMBDA i : \A j \in 1..(i - 1) : list[j] # list[i])

\* The sum of the weights at the positions from i on where the list holds k.
RECURSIVE WeightOf(_, _, _, _)
WeightOf(list, weights, k, i) ==
  IF i > Len(list) THEN 0
  ELSE (IF list[i] = k THEN weights[i] ELSE 0) + WeightOf(list, weights, k, i + 1)

\* The Counter after counter[list[i]] += weights[i] for every i in order,
\* from empty: its keys in first-seen order, each with its sum.
Counted(list, weights, first) ==
  ListFrom([n \in DOMAIN first |-> <<list[first[n]], WeightOf(list, weights, list[first[n]], 1)>>])

\* Counter.update(list) from empty: one more for every element, in order.
CounterOf(list) == Counted(list, ListFrom([i \in DOMAIN list |-> 1]), FirstIndices(list))

\* sum(counter.values())
RECURSIVE Total(_)
Total(counter) == IF counter = <<>> THEN 0 ELSE Head(counter)[2] + Total(Tail(counter))

\* The greatest number at position pos of the items of a list.
Greatest(list, pos) ==
  IF list = <<>> THEN 0
  ELSE CHOOSE m \in {list[i][pos] : i \in DOMAIN list} :
         \A i \in DOMAIN list : list[i][pos] <= m

\* The items whose number at pos is c, then those of c - 1, down to 0: each
\* group in the order of the list.
RECURSIVE DescendingFrom(_, _, _)
DescendingFrom(list, pos, c) ==
  IF c < 0 THEN <<>>
  ELSE SelectSeq(list, LAMBDA item : item[pos] = c) \o DescendingFrom(list, pos, c - 1)

\* The stable descending sort of a list by the number at pos of its items:
\* sorted(list, key=lambda x: x[pos], reverse=True) keeps ties in order.
Descending(list, pos) == DescendingFrom(list, pos, Greatest(list, pos))

\* list[:n]
First(list, n) == SubSeq(list, 1, IF n < Len(list) THEN n ELSE Len(list))

\* Counter.most_common(n): heapq.nlargest is the head of the stable
\* descending sort by count; most_common() is n = Len(counter).
most_common(counter, n) == First(Descending(counter, 2), n)

\* [(song, count) for song, count in items if count > 1]
MoreThanOnce(items) == SelectSeq(items, LAMBDA item : item[2] > 1)

-----------------------------------------------------------------------------
(* calculate_leader_stats.                                                 *)

\* The report year main() passes, and the lengths of the lists.
ReportYear == 2025

Top20 == 20

Top2 == 2

\* The services of the year and of the years before it.
InYearOrEarlier(list, year) == SelectSeq(list, LAMBDA s : s.year <= year)

\* [s for s in services if s['year'] == year]
InYear(list, year) == SelectSeq(list, LAMBDA s : s.year = year)

\* dict[k].append(v) on a defaultdict(list).
AppendTo(dict, k, v) ==
  IF k \in Keys(dict)
    THEN [dict EXCEPT ![IndexOf(dict, k)] = <<k, Append(@[2], v)>>]
    ELSE Append(dict, <<k, <<v>>>>)

\* leader_services: the services of each leader, leaders in the order of
\* their first service.
RECURSIVE GroupByLeader(_, _)
GroupByLeader(groups, list) ==
  IF list = <<>> THEN groups
  ELSE GroupByLeader(AppendTo(groups, Head(list).praise_leader, Head(list)), Tail(list))

\* The songs of one slot of the services of a list, service after service.
RECURSIVE SongsIn(_, _)
SongsIn(list, slot) ==
  IF list = <<>> THEN <<>> ELSE Head(list)[slot] \o SongsIn(Tail(list), slot)

\* svc['praise1'] + svc['praise2'], service after service.
RECURSIVE PraiseSongs(_)
PraiseSongs(list) ==
  IF list = <<>> THEN <<>>
  ELSE Head(list).praise1 \o Head(list).praise2 \o PraiseSongs(Tail(list))

\* The 20 most common songs with the songs sung once kept.
LeaderTop20Unfiltered(songs) == most_common(CounterOf(songs), Top20)

\* [(song, count) for song, count in counter.most_common(20) if count > 1]
LeaderTop20(songs) == MoreThanOnce(most_common(CounterOf(songs), Top20))

\* The songs of a set that are not in the historical set under their
\* display name.
NewSongsByName(all_songs_set, historical) ==
  Sorted({s \in all_songs_set : s \notin historical})

\* The songs of a set whose comparison key is not in the historical set.
NewSongs(all_songs_set, historical) ==
  Sorted({s \in all_songs_set : normalize_for_comparison(s) \notin historical})

\* The songs of the leaders other than one.
RECURSIVE OtherLeadersSongs(_, _)
OtherLeadersSongs(groups, leader) ==
  IF groups = <<>> THEN {}
  ELSE (IF Head(groups)[1] # leader
          THEN Elements(SongsIn(Head(groups)[2], "all_songs")) ELSE {})
         \cup OtherLeadersSongs(Tail(groups), leader)

\* leader_overlap_counts: every other leader with a song in common, and the
\* number of songs in common, in the order of leader_services.
RECURSIVE LeaderOverlapCounts(_, _, _)
LeaderOverlapCounts(groups, leader, all_songs_set) ==
  IF groups = <<>> THEN <<>>
  ELSE (IF /\ Head(groups)[1] # leader
           /\ all_songs_set \cap Elements(SongsIn(Head(groups)[2], "all_songs")) # {}
          THEN << <<Head(groups)[1],
                    Cardinality(all_songs_set
                                  \cap Elements(SongsIn(Head(groups)[2], "all_songs")))>> >>
          ELSE <<>>)
         \o LeaderOverlapCounts(Tail(groups), leader, all_songs_set)

\* The first two leaders with a song in common, the list left unsorted.
Top2OverlapUnsorted(counts) == First(counts, Top2)

\* sort(key=lambda x: x[1], reverse=True), then [:2].
Top2Overlap(counts) == First(Descending(counts, 2), Top2)

\* The owner of every item of a Counter of songs.
Owners(items, md, keys) ==
  ListFrom([i \in DOMAIN items |-> MappedWith(items[i][1], md, keys)])

\* The items of a Counter of songs that have an owner, and their owners.
Matched(items, owners) ==
  SelectSeq([i \in DOMAIN items |-> i], LAMBDA i : owners[i] # None)

MatchedOwners(owners, matched) == ListFrom([n \in DOMAIN matched |-> owners[matched[n]]])

MatchedCounts(items, matched) == ListFrom([n \in DOMAIN matched |-> items[matched[n]][2]])

\* publisher_counter[owner] += count for every item that has an owner.
PublisherCounterOf(owned, counts) == Counted(owned, counts, FirstIndices(owned))

PublisherCounter(items, owners) ==
  PublisherCounterOf(MatchedOwners(owners, Matched(items, owners)),
                     MatchedCounts(items, Matched(items, owners)))

\* unmatched_count after the items of praise_only_counter from i on.
RECURSIVE UnmatchedCount(_, _, _)
UnmatchedCount(items, owners, i) ==
  IF i > Len(items) THEN 0
  ELSE (IF owners[i] = None THEN items[i][2] ELSE 0) + UnmatchedCount(items, owners, i + 1)

\* count / total * 100, kept as the exact fraction <<numerator, denominator>>.
Percentage(count, total) == IF total > 0 THEN <<count * 100, total>> ELSE <<0, 1>>

Unmatched == <<"_", "_", "U", "N", "M", "A", "T", "C", "H", "E", "D", "_", "_">>

\* publisher_percentages: the publishers by count, then the unmatched row.
PublisherPercentages(publishers, unmatched_count, total) ==
  [i \in DOMAIN publishers |->
     <<publishers[i][1], Percentage(publishers[i][2], total), publishers[i][2]>>]
    \o (IF unmatched_count > 0
          THEN << <<Unmatched, Percentage(unmatched_count, total), unmatched_count>> >>
          ELSE <<>>)

\* The publisher rows with every unmatched song counted once, whatever the
\* number of times it was sung.
PublisherRowsPerSong(items, owners) ==
  PublisherPercentages(most_common(PublisherCounter(items, owners), Len(items)),
                       Cardinality({i \in DOMAIN items : owners[i] = None}),
                       Total(items))

PublisherRows(items, owners) ==
  PublisherPercentages(most_common(PublisherCounter(items, owners), Len(items)),
                       UnmatchedCount(items, owners, 1),
                       Total(items))

\* The publisher rows of the praise songs of a leader: praise_only_counter,
\* the normalized songs of the metadata table and the owner of each item
\* are computed once.
PublisherRowsOf(songs, md) ==
  CHOOSE result \in {PublisherRows(pair[1], pair[2]) :
                       pair \in {<<items, Owners(items, md, keys)>> :
                                   items \in {CounterOf(songs)}, keys \in {MetadataKeys(md)}}} :
    TRUE

\* stats[leader] with the publishers counted over the songs of all slots,
\* the peace songs included.
LeaderRecordCountingPeace(leader, list, all_songs, groups, historical, md) ==
  [ name |-> leader,
    total_services |-> Len(list),
    total_songs |-> Total(CounterOf(all_songs)),
    praise1_top20 |-> LeaderTop20(SongsIn(list, "praise1")),
    praise2_top20 |-> LeaderTop20(SongsIn(list, "praise2")),
    peace_top20 |-> LeaderTop20(SongsIn(list, "peace")),
    combined_top20 |-> LeaderTop20(all_songs),
    new_songs_2025 |-> NewSongs(Elements(all_songs), historical),
    common_songs_count |->
      Cardinality(Elements(all_songs) \cap OtherLeadersSongs(groups, leader)),
    top2_leaders_overlap |->
      Top2Overlap(LeaderOverlapCounts(groups, leader, Elements(all_songs))),
    publisher_percentages |-> PublisherRowsOf(all_songs, md) ]

\* stats[leader], from the leader's services and the songs of all its slots.
LeaderRecord(leader, list, all_songs, groups, historical, md) ==
  [ name |-> leader,
    total_services |-> Len(list),
    total_songs |-> Total(CounterOf(all_songs)),
    praise1_top20 |-> LeaderTop20(SongsIn(list, "praise1")),
    praise2_top20 |-> LeaderTop20(SongsIn(list, "praise2")),
    peace_top20 |-> LeaderTop20(SongsIn(list, "peace")),
    combined_top20 |-> LeaderTop20(all_songs),
    new_songs_2025 |-> NewSongs(Elements(all_songs), historical),
    common_songs_count |->
      Cardinality(Elements(all_songs) \cap OtherLeadersSongs(groups, leader)),
    top2_leaders_overlap |->
      Top2Overlap(LeaderOverlapCounts(groups, leader, Elements(all_songs))),
    publisher_percentages |-> PublisherRowsOf(PraiseSongs(list), md) ]

LeaderStats(group, groups, historical, md) ==
  LeaderRecord(group[1], group[2], SongsIn(group[2], "all_songs"), groups, historical, md)

-----------------------------------------------------------------------------
(* calculate_global_stats.                                                 *)

Top10 == 10

Top3 == 3

MinLeaders == 3

\* The leaders with the song in any slot, peace included.
LeadersOfAnySlot(list, name) ==
  {list[i].praise_leader : i \in {n \in DOMAIN list : name \in Elements(list[n].all_songs)}}

\* song_to_leaders[song]: the leaders with the song in praise1 or praise2.
LeadersOf(list, name) ==
  {list[i].praise_leader :
     i \in {n \in DOMAIN list : name \in Elements(list[n].praise1 \o list[n].praise2)}}

\* multi_leader_songs: (song, len(leaders), sorted(leaders), count) for the
\* songs of at least 3 leaders, in the order song_to_leaders holds them,
\* which is that of the praise1 + praise2 counter.
MultiLeaderRow(item, leaders) == <<item[1], Cardinality(leaders), Sorted(leaders), item[2]>>

RECURSIVE MultiLeaderSongs(_, _)
MultiLeaderSongs(list, items) ==
  IF items = <<>> THEN <<>>
  ELSE (IF Cardinality(LeadersOf(list, Head(items)[1])) >= MinLeaders
          THEN <<MultiLeaderRow(Head(items), LeadersOf(list, Head(items)[1]))>>
          ELSE <<>>)
         \o MultiLeaderSongs(list, Tail(items))

\* sort(key=lambda x: (x[1], x[3]), reverse=True), then [:10]: the stable
\* descending sort by the pair is that by x[3] followed by that by x[1].
Top10MultiLeader(multi) == First(Descending(Descending(multi, 4), 2), Top10)

\* The global record with the songs sung once dropped from praise1_top20.
GlobalRecordFiltered(list, all_songs, historical) ==
  [ total_unique_songs |-> Cardinality(Elements(all_songs)),
    praise1_top20 |-> LeaderTop20(SongsIn(list, "praise1")),
    praise2_top20 |-> most_common(CounterOf(SongsIn(list, "praise2")), Top20),
    combined_top20 |-> most_common(CounterOf(PraiseSongs(list)), Top20),
    top10_multi_leader |->
      Top10MultiLeader(MultiLeaderSongs(list, CounterOf(PraiseSongs(list)))),
    peace_top3 |-> most_common(CounterOf(SongsIn(list, "peace")), Top3),
    new_songs_2025 |-> NewSongs(Elements(all_songs), historical),
    unique_songs_2025 |-> Sorted(Elements(all_songs)) ]

\* The global record with the new songs told by their names as written,
\* not by their comparison keys.
GlobalRecordNewByName(list, all_songs, historical) ==
  [ total_unique_songs |-> Cardinality(Elements(all_songs)),
    praise1_top20 |-> most_common(CounterOf(SongsIn(list, "praise1")), Top20),
    praise2_top20 |-> most_common(CounterOf(SongsIn(list, "praise2")), Top20),
    combined_top20 |-> most_common(CounterOf(PraiseSongs(list)), Top20),
    top10_multi_leader |->
      Top10MultiLeader(MultiLeaderSongs(list, CounterOf(PraiseSongs(list)))),
    peace_top3 |-> most_common(CounterOf(SongsIn(list, "peace")), Top3),
    new_songs_2025 |-> NewSongsByName(Elements(all_songs), historical),
    unique_songs_2025 |-> Sorted(Elements(all_songs)) ]

GlobalRecord(list, all_songs, historical) ==
  [ total_unique_songs |-> Cardinality(Elements(all_songs)),
    praise1_top20 |-> most_common(CounterOf(SongsIn(list, "praise1")), Top20),
    praise2_top20 |-> most_common(CounterOf(SongsIn(list, "praise2")), Top20),
    combined_top20 |-> most_common(CounterOf(PraiseSongs(list)), Top20),
    top10_multi_leader |->
      Top10MultiLeader(MultiLeaderSongs(list, CounterOf(PraiseSongs(list)))),
    peace_top3 |-> most_common(CounterOf(SongsIn(list, "peace")), Top3),
    new_songs_2025 |-> NewSongs(Elements(all_songs), historical),
    unique_songs_2025 |-> Sorted(Elements(all_songs)) ]

GlobalStats(list, historical) == GlobalRecord(list, SongsIn(list, "all_songs"), historical)

-----------------------------------------------------------------------------
(* calculate_new_song_usage_stats.                                         *)

Saturday == 5

Sunday == 6

\* a < b on dates <<year, month, day>>.
DateLess(a, b) ==
  \/ a[1] < b[1]
  \/ a[1] = b[1] /\ a[2] < b[2]
  \/ a[1] = b[1] /\ a[2] = b[2] /\ a[3] < b[3]

\* sorted(list, key=lambda x: x['date']): stable, so a service goes after
\* the services of the same or an earlier date that precede it in the list.
RECURSIVE SortedByDate(_)
SortedByDate(list) ==
  IF list = <<>> THEN <<>>
  ELSE LET last == list[Len(list)]
           before == SortedByDate(SubSeq(list, 1, Len(list) - 1))
       IN  InsertAt(before, last,
                    Cardinality({i \in DOMAIN before : ~DateLess(last.date, before[i].date)}))

OnWeekday(list, weekday) == SelectSeq(list, LAMBDA s : s.weekday = weekday)

\* The comparison key of every song of a list.
KeysOf(songs) == ListFrom([i \in DOMAIN songs |-> normalize_for_comparison(songs[i])])

\* The songs of a service outside the historical set, whether or not their
\* key was seen in an earlier service.
RECURSIVE NewSongsSeenOrNot(_, _, _, _, _)
NewSongsSeenOrNot(songs, keys, i, historical, seen) ==
  IF i > Len(songs) THEN <<>>
  ELSE IF keys[i] \notin historical
         THEN <<songs[i]>> \o NewSongsSeenOrNot(songs, keys, i + 1, historical, seen)
         ELSE NewSongsSeenOrNot(songs, keys, i + 1, historical, seen)

\* The songs of a service that the inner loop appends to
\* new_songs_in_service: from song i on, with the keys seen so far.
RECURSIVE NewSongsFrom(_, _, _, _, _)
NewSongsFrom(songs, keys, i, historical, seen) ==
  IF i > Len(songs) THEN <<>>
  ELSE IF keys[i] \notin historical /\ keys[i] \notin seen
         THEN <<songs[i]>> \o NewSongsFrom(songs, keys, i + 1, historical, seen \cup {keys[i]})
         ELSE NewSongsFrom(songs, keys, i + 1, historical, seen)

NewSongsInService(songs, historical, seen) ==
  CHOOSE new_songs_in_service \in
    {NewSongsFrom(songs, keys, 1, historical, seen) : keys \in {KeysOf(songs)}} : TRUE

ComparisonKeys(songs) == {normalize_for_comparison(songs[i]) : i \in DOMAIN songs}

\* str(n) for a natural number.
RECURSIVE Decimal(_)
Decimal(n) ==
  IF n < 10 THEN <<Digits[n + 1]>> ELSE Decimal(n \div 10) \o <<Digits[(n % 10) + 1]>>

\* ','.join(songs)
RECURSIVE JoinComma(_)
JoinComma(songs) ==
  IF songs = <<>> THEN <<>>
  ELSE IF Len(songs) = 1 THEN songs[1]
  ELSE songs[1] \o <<",">> \o JoinComma(Tail(songs))

\* f"{year}-{month}-{day}({songs_str})"
DateWithSongs(date, songs) ==
  Decimal(date[1]) \o <<"-">> \o Decimal(date[2]) \o <<"-">> \o Decimal(date[3])
    \o <<"(">> \o JoinComma(songs) \o <<")">>

-----------------------------------------------------------------------------
(* calculate_publisher_stats.                                              *)

\* get_all_publishers_from_metadata: sorted(set of the consolidated owners).
get_all_publishers_from_metadata(md) == Sorted({PublisherAt(md, i) : i \in DOMAIN md})

\* copyright_to_songs[publisher]: the items of a Counter of songs owned by a
\* publisher, in the order of the Counter, then sorted by count, descending.
SongsOfPublisher(items, owners, publisher) ==
  Descending(SelectSeq(items, LAMBDA item : owners[IndexOf(items, item[1])] = publisher), 2)

\* (publisher, total_count, top10_songs) for every item of a publisher
\* ranking.
PublisherEntries(ranking, items, owners) ==
  ListFrom([n \in DOMAIN ranking |->
              <<ranking[n][1], ranking[n][2],
                First(SongsOfPublisher(items, owners, ranking[n][1]), Top10)>>])

\* A Top-20 list of publishers from a Counter of songs and its owners.
TopPublishers(items, owners) ==
  PublisherEntries(most_common(PublisherCounter(items, owners), Top20), items, owners)

\* The Top-20 list of the songs of a category; the Counter, the normalized
\* songs of the table and the owners are computed once.
TopPublishersOf(songs, md) ==
  CHOOSE result \in {TopPublishers(pair[1], pair[2]) :
                       pair \in {<<items, Owners(items, md, keys)>> :
                                   items \in {CounterOf(songs)}, keys \in {MetadataKeys(md)}}} :
    TRUE

\* unmatched_songs_sorted: the praise songs without owner, by count.
UnmatchedSongs(items, owners) ==
  Descending(SelectSeq(items, LAMBDA item : owners[IndexOf(items, item[1])] = None), 2)

\* copyright_counter.get(publisher, 0)
CountOf(counter, publisher) == IF publisher \in Keys(counter) THEN Get(counter, publisher) ELSE 0

\* all_publishers_list: every publisher of the metadata with its count and
\* all its songs, sorted by (-count, publisher); the list is built in the
\* order of the publisher names, which the stable sort by count keeps.
AllPublishersList(all_publishers, counter, items, owners) ==
  Descending(ListFrom([n \in DOMAIN all_publishers |->
                         <<all_publishers[n], CountOf(counter, all_publishers[n]),
                           SongsOfPublisher(items, owners, all_publishers[n])>>]), 2)

\* The part of the result made from praise_only_counter.
PraiseOnlyEntries(items, owners, md) ==
  [ top20_publishers |-> TopPublishers(items, owners),
    unmatched_songs |-> UnmatchedSongs(items, owners),
    all_publishers |->
      AllPublishersList(get_all_publishers_from_metadata(md),
                        PublisherCounter(items, owners), items, owners) ]

PraiseOnlyEntriesOf(songs, md) ==
  CHOOSE result \in {PraiseOnlyEntries(pair[1], pair[2], md) :
                       pair \in {<<items, Owners(items, md, keys)>> :
                                   items \in {CounterOf(songs)}, keys \in {MetadataKeys(md)}}} :
    TRUE

\* The value calculate_publisher_stats returns for the services of the year.
PublisherRecord(praise_only, list, md) ==
  [ top20_publishers |-> praise_only.top20_publishers,
    top20_praise1 |-> TopPublishersOf(SongsIn(list, "praise1"), md),
    top20_praise2 |-> TopPublishersOf(SongsIn(list, "praise2"), md),
    top20_peace |-> TopPublishersOf(SongsIn(list, "peace"), md),
    unmatched_songs |-> praise_only.unmatched_songs,
    all_publishers |-> praise_only.all_publishers ]

PublisherStats(list, md) == PublisherRecord(PraiseOnlyEntriesOf(PraiseSongs(list), md), list, md)

-----------------------------------------------------------------------------
(* The statistics of main(): calculate_leader_stats, calculate_global_stats, *)
(* calculate_new_song_usage_stats and calculate_publisher_stats over the    *)
(* same services.                                                          *)

MaxServices == 3

\* Numbered songs "S01", "S02", ...
SongNumber(i) == <<"S", Digits[(i \div 10) + 1], Digits[(i % 10) + 1]>>

SongsFromTo(a, b) == [i \in 1..(b - a + 1) |-> SongNumber(a + i - 1)]

Grace == <<"G", "r", "a", "c", "e">>

GraceLower == <<"g", "r", "a", "c", "e">>

BrandNew == <<"B", "r", "a", "n", "d", " ", "N", "e", "w", " ", "S", "o", "n", "g", " ", "2", "0", "2", "5">>

CornerstoneBilingual == <<"C", "o", "r", "n", "e", "r", "s", "t", "o", "n", "e", " ", "u623f", "u89d2", "u57fa", "u77f3">>

\* A song of STATIC_SONG_COPYRIGHT_MAPPINGS.
LittleHands == <<"u5c0f", "u5c0f", "u7684", "u96d9", "u624b">>

Amy == <<"A", "m", "y">>

Ben == <<"B", "e", "n">>

Cat == <<"C", "a", "t">>

\* The services of the inputs: a Saturday service of Amy with 21 praise1
\* songs and a song sung twice, a Sunday service of Ben and an earlier
\* Wednesday service of Cat with 11 of them and a song of the static override
\* table, and a service of the year before.
ServiceMenu ==
  { ServiceRecord(<<2025, 1, 4>>, Amy, <<>>,
                  SongsFromTo(1, 21), <<Grace, Grace>>, <<CornerstoneBilingual>>),
    ServiceRecord(<<2025, 1, 5>>, Ben, <<>>,
                  SongsFromTo(1, 11), <<BrandNew, GraceLower>>, <<Grace>>),
    ServiceRecord(<<2025, 1, 1>>, Cat, <<>>,
                  SongsFromTo(1, 11) \o <<Grace>>, <<Grace, LittleHands>>, <<BrandNew>>),
    ServiceRecord(<<2024, 12, 29>>, Amy, <<>>,
                  <<Grace, SongNumber(30)>>, <<>>, <<>>) }

InputServices == SeqsUpTo(ServiceMenu, MaxServices)

\* The reference files: both missing, or a baseline with a song index.
Baseline ==
  { normalize_for_comparison(Grace), normalize_for_comparison(CornerstoneBilingual),
    normalize_for_comparison(SongNumber(1)), normalize_for_comparison(SongNumber(2)) }

SongIndex ==
  << <<Grace, <<"A", "l", "a", "n", " ", "Y", "u">>>>,
     <<SongNumber(1), <<"S", "t", "r", "e", "a", "m", " ", "o", "f", " ", "P", "r", "a", "i", "s", "e">>>>,
     <<<<"C", "o", "r", "n", "e", "r", "s", "t", "o", "n", "e">>, <<"H", "i", "l", "l", "s", "o", "n", "g">>>> >>

InputReferences == { <<{}, <<>>>>, <<Baseline, SongIndex>> }

InitStats ==
  /\ pc = "calculate_leader_stats"
  /\ services \in InputServices
  /\ \E reference \in InputReferences :
       historical_songs_set = reference[1] /\ metadata = reference[2]
  /\ reader = <<>> /\ rows = <<>> /\ row_i = 0 /\ current_row = <<>>
  /\ consolidated = <<>> /\ load_i = 0
  /\ song_name = <<>> /\ copyright = None
  /\ year_services = <<>>
  /\ leader_services = <<>>
  /\ leader_stats = <<>>
  /\ global_stats = None
  /\ IdleWalk
  /\ new_song_usage_stats = <<>>
  /\ publisher_stats = None
  /\ IdleClean /\ IdleCompare /\ IdleSplit

\* calculate_leader_stats: the services of the year, grouped by leader.
GroupServices ==
  /\ pc = "calculate_leader_stats"
  /\ year_services' = InYear(services, ReportYear)
  /\ leader_services' = GroupByLeader(<<>>, InYear(services, ReportYear))
  /\ leader_stats' = <<>>
  /\ pc' = "leader loop"
  /\ UNCHANGED <<global_stats, walkVars, new_song_usage_stats, publisher_stats, notStats>>

\* for leader, leader_svc_list in leader_services.items(): stats[leader] = ...
LeaderLoop ==
  /\ pc = "leader loop"
  /\ Len(leader_stats) < Len(leader_services)
  /\ leader_stats' =
       Append(leader_stats,
              LeaderStats(leader_services[Len(leader_stats) + 1], leader_services,
                          historical_songs_set, metadata))
  /\ UNCHANGED <<pc, year_services, leader_services, global_stats, walkVars,
                 new_song_usage_stats, publisher_stats, notStats>>

LeaderReturn ==
  /\ pc = "leader loop"
  /\ Len(leader_stats) = Len(leader_services)
  /\ pc' = "calculate_global_stats"
  /\ UNCHANGED <<statsVars, notStats>>

CalculateGlobalStats ==
  /\ pc = "calculate_global_stats"
  /\ year_services' = InYear(services, ReportYear)
  /\ global_stats' = GlobalStats(InYear(services, ReportYear), historical_songs_set)
  /\ pc' = "calculate_new_song_usage_stats"
  /\ UNCHANGED <<leader_services, leader_stats, walkVars, new_song_usage_stats,
                 publisher_stats, notStats>>

\* The walk begins after services.sort(key=...) has sorted the caller's
\* list in place.
SortServicesInPlace ==
  /\ pc = "calculate_new_song_usage_stats"
  /\ services' = SortedByDate(services)
  /\ year_services' = SortedByDate(InYear(services, ReportYear))
  /\ service_list' = SortedByDate(InYear(services, ReportYear))
  /\ walk_i' = 0
  /\ seen_new_songs' = {}
  /\ worships_with_new' = 0
  /\ dates_with_new' = <<>>
  /\ new_song_usage_stats' = <<>>
  /\ pc' = "combined"
  /\ UNCHANGED <<leader_services, leader_stats, global_stats, publisher_stats,
                 historical_songs_set, cleanVars, compareVars, splitVars, copyrightVars,
                 reader, rows, row_i, current_row, consolidated, load_i>>

\* The services of the year sorted by date; the walk of all of them begins.
SortServices ==
  /\ pc = "calculate_new_song_usage_stats"
  /\ year_services' = SortedByDate(InYear(services, ReportYear))
  /\ service_list' = SortedByDate(InYear(services, ReportYear))
  /\ walk_i' = 0
  /\ seen_new_songs' = {}
  /\ worships_with_new' = 0
  /\ dates_with_new' = <<>>
  /\ new_song_usage_stats' = <<>>
  /\ pc' = "combined"
  /\ UNCHANGED <<leader_services, leader_stats, global_stats, publisher_stats, notStats>>

Buckets == {"combined", "saturday", "sunday"}

\* One service of count_worships_with_new_songs, given its new songs.
Visit(svc, new_songs_in_service) ==
  /\ seen_new_songs' = seen_new_songs \cup ComparisonKeys(new_songs_in_service)
  /\ worships_with_new' =
       IF new_songs_in_service # <<>> THEN worships_with_new + 1 ELSE worships_with_new
  /\ dates_with_new' =
       IF new_songs_in_service # <<>>
         THEN Append(dates_with_new, DateWithSongs(svc.date, new_songs_in_service))
         ELSE dates_with_new

WalkService ==
  /\ pc \in Buckets
  /\ walk_i < Len(service_list)
  /\ Visit(service_list[walk_i + 1],
           NewSongsInService(service_list[walk_i + 1].all_songs,
                             historical_songs_set, seen_new_songs))
  /\ walk_i' = walk_i + 1
  /\ UNCHANGED <<pc, service_list, year_services, leader_services, leader_stats,
                 global_stats, new_song_usage_stats, publisher_stats, notStats>>

\* The result of a bucket; only the weekday buckets return their dates.
BucketResult(bucket) ==
  [ total_worships |-> Len(service_list),
    worships_with_new_songs |-> worships_with_new,
    percentage |-> Percentage(worships_with_new, Len(service_list)),
    dates |-> IF bucket = "combined" THEN None ELSE dates_with_new ]

\* The walk of the next bucket begins with the running set of the walk
\* before it: one set shared by the three walks.
NextBucketSharingSeen(next, list) ==
  /\ walk_i = Len(service_list)
  /\ new_song_usage_stats' = Append(new_song_usage_stats, <<pc, BucketResult(pc)>>)
  /\ service_list' = list
  /\ walk_i' = 0
  /\ seen_new_songs' = seen_new_songs
  /\ worships_with_new' = 0
  /\ dates_with_new' = <<>>
  /\ pc' = next
  /\ UNCHANGED <<year_services, leader_services, leader_stats, global_stats,
                 publisher_stats, notStats>>

\* The walk of a bucket returns and the walk of the next bucket begins.
NextBucket(next, list) ==
  /\ walk_i = Len(service_list)
  /\ new_song_usage_stats' = Append(new_song_usage_stats, <<pc, BucketResult(pc)>>)
  /\ service_list' = list
  /\ walk_i' = 0
  /\ seen_new_songs' = {}
  /\ worships_with_new' = 0
  /\ dates_with_new' = <<>>
  /\ pc' = next
  /\ UNCHANGED <<year_services, leader_services, leader_stats, global_stats,
                 publisher_stats, notStats>>

WalkReturnCombined ==
  pc = "combined" /\ NextBucket("saturday", OnWeekday(year_services, Saturday))

WalkReturnSaturday ==
  pc = "saturday" /\ NextBucket("sunday", OnWeekday(year_services, Sunday))

WalkReturnSunday ==
  pc = "sunday" /\ NextBucket("calculate_publisher_stats", <<>>)

\* calculate_publisher_stats: the publishers of the songs of the year.
CalculatePublisherStats ==
  /\ pc = "calculate_publisher_stats"
  /\ year_services' = InYear(services, ReportYear)
  /\ publisher_stats' = PublisherStats(InYear(services, ReportYear), metadata)
  /\ pc' = "statistics done"
  /\ UNCHANGED <<leader_services, leader_stats, global_stats, walkVars,
                 new_song_usage_stats, notStats>>

NextStats ==
  \/ GroupServices
  \/ LeaderLoop
  \/ LeaderReturn
  \/ CalculateGlobalStats
  \/ SortServices
  \/ WalkService
  \/ WalkReturnCombined
  \/ WalkReturnSaturday
  \/ WalkReturnSunday
  \/ CalculatePublisherStats

SpecStats == InitStats /\ [][NextStats]_vars

-----------------------------------------------------------------------------
(* Claims on the statistics.                                               *)

\* The services of the report year led by a leader, as positions of the
\* input sequence.
ServicesOf(leader) ==
  {i \in DOMAIN services :
     services[i].year = ReportYear /\ services[i].praise_leader = leader}

\* The praise occurrences of a leader: one for every position of praise1
\* and of praise2 of the leader's services.
PraiseOccurrences(leader) ==
  UNION {({i} \X {"praise1"} \X DOMAIN services[i].praise1)
           \cup ({i} \X {"praise2"} \X DOMAIN services[i].praise2) : i \in ServicesOf(leader)}

\* The only row of publisher_percentages when n praise occurrences are
\* all unmatched.
AllUnmatched(n) == IF n > 0 THEN << <<Unmatched, <<n * 100, n>>, n>> >> ELSE <<>>

\* C13: with an empty copyright-metadata table map_song_to_copyright returns
\* no publisher for every song of every service, and the publisher rows of
\* every leader are the unmatched row alone, counting every praise occurrence
\* of the leader (no row, and no division, when the leader has none).
C13_EmptyMetadataUnmatched ==
  metadata = <<>> =>
    /\ \A i \in DOMAIN services : \A j \in DOMAIN services[i].all_songs :
         map_song_to_copyright(services[i].all_songs[j], metadata) = None
    /\ \A n \in DOMAIN leader_stats :
         leader_stats[n].publisher_percentages
           = AllUnmatched(Cardinality(PraiseOccurrences(leader_stats[n].name)))

\* A leader with a praise song sung more than once, all unmatched.
C13_Witness ==
  /\ metadata = <<>>
  /\ \E n \in DOMAIN leader_stats :
       /\ leader_stats[n].publisher_percentages # <<>>
       /\ leader_stats[n].combined_top20 # <<>>

\* The categories of the Top-20 lists of a leader: the field of the record
\* and the slot of the service it ranks.
Categories ==
  { <<"praise1_top20", "praise1">>, <<"praise2_top20", "praise2">>,
    <<"peace_top20", "peace">>, <<"combined_top20", "all_songs">> }

\* The positions at which the services of a leader hold a song in a slot,
\* and the songs of the slot.
Occurrences(leader, slot, name) ==
  UNION {{<<i, j>> : j \in {k \in DOMAIN services[i][slot] : services[i][slot][k] = name}} :
           i \in ServicesOf(leader)}

SlotSongs(leader, slot) ==
  UNION {Elements(services[i][slot]) : i \in ServicesOf(leader)}

TimesSung(leader, slot, name) == Cardinality(Occurrences(leader, slot, name))

\* calculate_leader_stats is in its loop over the leaders or at its end:
\* leader_stats holds the records stored so far, which no later action
\* changes.
InLeaderLoop == pc = "leader loop"

\* A ranking: <<song, count>> entries with the true counts, no song twice,
\* in descending order of count.
IsRanking(list, leader, slot) ==
  /\ \A n \in DOMAIN list : list[n][2] = TimesSung(leader, slot, list[n][1])
  /\ \A m, n \in DOMAIN list : m < n => list[m][1] # list[n][1] /\ list[m][2] >= list[n][2]

\* C14: every Top-20 list of every leader is the first 20 entries of the
\* ranking of the leader's songs sung more than once in the category: its
\* entries carry the true counts, all above 1, in descending order; it has at
\* most 20 entries; a song sung more than once is left out only of a list of
\* 20 entries none of which was sung less often.
C14_LeaderTop20Floor ==
  InLeaderLoop =>
    \A n \in DOMAIN leader_stats : \A category \in Categories :
      LET list == leader_stats[n][category[1]]
          leader == leader_stats[n].name
      IN  /\ IsRanking(list, leader, category[2])
          /\ \A m \in DOMAIN list : list[m][2] > 1
          /\ Len(list) <= Top20
          /\ \A name \in SlotSongs(leader, category[2]) \ {list[m][1] : m \in DOMAIN list} :
               \/ TimesSung(leader, category[2], name) = 1
               \/ /\ Len(list) = Top20
                  /\ TimesSung(leader, category[2], name) <= list[Top20][2]

\* A leader with 21 praise1 songs sung twice, one of them cut from a full
\* list, and a leader whose songs sung once are kept out of a list that
\* holds the song sung twice.
C14_Witness ==
  /\ \E n \in DOMAIN leader_stats :
       /\ Len(leader_stats[n].praise1_top20) = Top20
       /\ \E name \in SlotSongs(leader_stats[n].name, "praise1") :
            /\ TimesSung(leader_stats[n].name, "praise1", name) = 2
            /\ \A m \in 1..Top20 : leader_stats[n].praise1_top20[m][1] # name
  /\ \E n \in DOMAIN leader_stats :
       /\ Len(leader_stats[n].combined_top20) = 1
       /\ \E name \in SlotSongs(leader_stats[n].name, "all_songs") :
            TimesSung(leader_stats[n].name, "all_songs", name) = 1

\* The categories of the global Top-20 lists: the field of global_stats and
\* the slots of the service it ranks.
GlobalCategories ==
  { <<"praise1_top20", {"praise1"}>>, <<"praise2_top20", {"praise2"}>>,
    <<"combined_top20", {"praise1", "praise2"}>> }

\* The services of the report year, as positions of the input sequence.
YearServices == {i \in DOMAIN services : services[i].year = ReportYear}

\* The songs of the given slots of the services of the year, and the number
\* of times one was sung in them.
SongsOfYear(slots) == UNION {Elements(services[i][slot]) : i \in YearServices, slot \in slots}

TimesSungInYear(slots, name) ==
  Cardinality(UNION {{<<i, slot, j>> :
                        j \in {k \in DOMAIN services[i][slot] : services[i][slot][k] = name}} :
                       i \in YearServices, slot \in slots})

Listed(list) == {list[n][1] : n \in DOMAIN list}

\* calculate_global_stats has just returned: global_stats holds its record,
\* which no later action changes.
GlobalStatsReturned == pc = "calculate_new_song_usage_stats"

\* C15 as stated: every song sung twice in a category over the services of
\* the year is in the global Top-20 list of the category.
C15_SungTwiceListed ==
  GlobalStatsReturned =>
    \A category \in GlobalCategories :
      \A name \in SongsOfYear(category[2]) :
        TimesSungInYear(category[2], name) = 2 => name \in Listed(global_stats[category[1]])

\* C15: every global Top-20 list is the first 20 entries of the ranking of
\* all the songs of the category, the songs sung once included: its entries
\* carry the true counts, in descending order, no song twice; it has at most
\* 20 entries; a song is left out only of a list of 20 entries none of which
\* was sung less often.
C15_GlobalTop20 ==
  GlobalStatsReturned =>
    \A category \in GlobalCategories :
      LET list == global_stats[category[1]]
      IN  /\ \A n \in DOMAIN list : list[n][2] = TimesSungInYear(category[2], list[n][1])
          /\ \A m, n \in DOMAIN list :
               m < n => list[m][1] # list[n][1] /\ list[m][2] >= list[n][2]
          /\ Len(list) <= Top20
          /\ \A name \in SongsOfYear(category[2]) \ Listed(list) :
               Len(list) = Top20 /\ TimesSungInYear(category[2], name) <= list[Top20][2]

\* A list that keeps a song sung once, next to a song sung twice.
C15_Witness ==
  /\ GlobalStatsReturned
  /\ \E m, n \in DOMAIN global_stats.praise1_top20 :
       global_stats.praise1_top20[m][2] = 2 /\ global_stats.praise1_top20[n][2] = 1

\* A list of songs in strictly ascending order of code points: sorted, and
\* no song twice.
StrictlyAscending(list) == \A m, n \in DOMAIN list : m < n => StrLess(list[m], list[n])

\* C16: new_songs_2025 of every leader lists, once each and in ascending
\* order, exactly the songs of praise1, praise2 and peace of the leader's
\* services of the year whose comparison key is not in the baseline.
C16_LeaderNewSongs ==
  InLeaderLoop =>
    \A n \in DOMAIN leader_stats :
      /\ Elements(leader_stats[n].new_songs_2025)
           = {name \in SlotSongs(leader_stats[n].name, "praise1")
                         \cup SlotSongs(leader_stats[n].name, "praise2")
                         \cup SlotSongs(leader_stats[n].name, "peace") :
                normalize_for_comparison(name) \notin historical_songs_set}
      /\ StrictlyAscending(leader_stats[n].new_songs_2025)

\* A leader who sang "Cornerstone" with its Chinese title or "grace", whose
\* key is in the baseline under another spelling, and songs that are new.
C16_Witness ==
  \E n \in DOMAIN leader_stats :
    /\ historical_songs_set # {}
    /\ Len(leader_stats[n].new_songs_2025) >= 2
    /\ \E name \in SlotSongs(leader_stats[n].name, "all_songs") :
         /\ name \notin historical_songs_set
         /\ normalize_for_comparison(name) \in historical_songs_set

PraiseSlots == {"praise1", "praise2"}

\* The distinct leaders who chose a song in praise1 or praise2 of a service
\* of the year.
PraiseLeaders(name) ==
  {services[i].praise_leader :
     i \in {k \in YearServices : \E slot \in PraiseSlots : name \in Elements(services[k][slot])}}

\* rank(a) >= rank(b) in the order of top10_multi_leader: by leader_count,
\* then by count.
RanksAtLeast(a, b) == a[2] > b[2] \/ (a[2] = b[2] /\ a[4] >= b[4])

\* C17 as stated: no song of exactly 2 leaders is listed, and every song
\* chosen by 3 or more leaders is listed with its true leader count.
C17_EveryMultiLeaderSongListed ==
  GlobalStatsReturned =>
    \A name \in SongsOfYear(PraiseSlots) :
      /\ Cardinality(PraiseLeaders(name)) = 2
           => \A n \in DOMAIN global_stats.top10_multi_leader :
                global_stats.top10_multi_leader[n][1] # name
      /\ Cardinality(PraiseLeaders(name)) >= MinLeaders
           => \E n \in DOMAIN global_stats.top10_multi_leader :
                /\ global_stats.top10_multi_leader[n][1] = name
                /\ global_stats.top10_multi_leader[n][2] = Cardinality(PraiseLeaders(name))

\* C17: every entry of top10_multi_leader is a song chosen in praise1 or
\* praise2 by 3 or more distinct leaders, with the true number of these
\* leaders, their sorted names and the true praise count, peace choices not
\* counted; the entries are in descending order of (leader_count, count), no
\* song twice, at most 10; a song of 3 or more leaders is left out only of a
\* list of 10 entries that all rank at least as high.
C17_MultiLeaderTop10 ==
  GlobalStatsReturned =>
    LET list == global_stats.top10_multi_leader
    IN  /\ \A n \in DOMAIN list :
             /\ list[n][2] = Cardinality(PraiseLeaders(list[n][1]))
             /\ list[n][2] >= MinLeaders
             /\ Elements(list[n][3]) = PraiseLeaders(list[n][1])
             /\ StrictlyAscending(list[n][3])
             /\ list[n][4] = TimesSungInYear(PraiseSlots, list[n][1])
        /\ \A m, n \in DOMAIN list :
             m < n => list[m][1] # list[n][1] /\ RanksAtLeast(list[m], list[n])
        /\ Len(list) <= Top10
        /\ \A name \in SongsOfYear(PraiseSlots) \ Listed(list) :
             Cardinality(PraiseLeaders(name)) >= MinLeaders
               => /\ Len(list) = Top10
                  /\ RanksAtLeast(list[Top10],
                                  <<name, Cardinality(PraiseLeaders(name)), <<>>,
                                    TimesSungInYear(PraiseSlots, name)>>)

\* Songs of 3 leaders are listed while a song chosen in praise by 2 leaders
\* and in peace by a third is not.
C17_Witness ==
  /\ GlobalStatsReturned
  /\ global_stats.top10_multi_leader # <<>>
  /\ \E name \in SongsOfYear(PraiseSlots) :
       /\ Cardinality(PraiseLeaders(name)) = 2
       /\ Cardinality({services[i].praise_leader :
                         i \in {k \in YearServices : name \in Elements(services[k].all_songs)}}) = 3

\* The services of the year that a bucket walks.
InBucket(bucket) ==
  {i \in YearServices :
     \/ bucket = "combined"
     \/ bucket = "saturday" /\ services[i].weekday = Saturday
     \/ bucket = "sunday" /\ services[i].weekday = Sunday}

\* The comparison keys outside the baseline of the songs of each service
\* of a list.
NewKeys(list) ==
  ListFrom([k \in DOMAIN list |-> ComparisonKeys(list[k].all_songs) \ historical_songs_set])

\* The services of the first n whose new keys are not all among those of
\* the services before them: the first service of each new key is of them.
Introducing(new_keys, n) ==
  {k \in 1..n : new_keys[k] \ UNION {new_keys[j] : j \in 1..(k - 1)} # {}}

\* C18: during the walk of a bucket the list walked holds the services of
\* the bucket in ascending order of date; the running set is empty before
\* the first service and holds the new keys of the services visited so far;
\* the services counted are those visited that hold a new key no service
\* visited before them holds, one date string each, so the count never
\* exceeds the number of services of the bucket.
C18_NewSongWalk ==
  pc \in Buckets =>
    /\ \A m, n \in DOMAIN service_list :
         m < n => ~DateLess(service_list[n].date, service_list[m].date)
    /\ Len(service_list) = Cardinality(InBucket(pc))
    /\ \A k \in DOMAIN service_list : \E i \in InBucket(pc) : service_list[k] = services[i]
    /\ walk_i \in 0..Len(service_list)
    /\ \A new_keys \in {NewKeys(First(service_list, walk_i))} :
         /\ seen_new_songs = UNION {new_keys[k] : k \in 1..walk_i}
         /\ worships_with_new = Cardinality(Introducing(new_keys, walk_i))
    /\ Len(dates_with_new) = worships_with_new
    /\ worships_with_new <= Len(service_list)

\* The services were loaded out of date order, and the walk has passed a
\* service that is counted and then a service with new songs that is not,
\* all its new keys being in the running set.
C18_Witness ==
  /\ pc \in Buckets
  /\ \E i, j \in YearServices : i < j /\ DateLess(services[j].date, services[i].date)
  /\ worships_with_new > 0
  /\ \E k \in 2..walk_i :
       /\ NewKeys(service_list)[k] # {}
       /\ k \notin Introducing(NewKeys(service_list), walk_i)

\* The songs of praise1 of a leader sung at least as often as a song, the
\* song itself left out: fewer than 20 of them put the song among the 20
\* most frequent however ties are ordered.
AtLeastAsOften(leader, name) ==
  {other \in SlotSongs(leader, "praise1") \ {name} :
     TimesSung(leader, "praise1", other) >= TimesSung(leader, "praise1", name)}

\* C19: for every leader, total_services is the number of services of the
\* year of the leader, and a praise1 song the leader sang n >= 2 times that
\* is among the leader's 20 most frequent is in praise1_top20 with count n,
\* and is not in new_songs_2025 when its comparison key is in the baseline;
\* when the loop has ended there is one record for each leader of the year.
C19_EndToEndCounts ==
  /\ InLeaderLoop => \A n \in DOMAIN leader_stats :
       /\ leader_stats[n].total_services = Cardinality(ServicesOf(leader_stats[n].name))
       /\ leader_stats[n].total_services > 0
       /\ \A name \in SlotSongs(leader_stats[n].name, "praise1") :
            /\ TimesSung(leader_stats[n].name, "praise1", name) >= 2
            /\ Cardinality(AtLeastAsOften(leader_stats[n].name, name)) < Top20
            => /\ \E m \in DOMAIN leader_stats[n].praise1_top20 :
                    leader_stats[n].praise1_top20[m]
                      = <<name, TimesSung(leader_stats[n].name, "praise1", name)>>
               /\ normalize_for_comparison(name) \in historical_songs_set
                    => name \notin Elements(leader_stats[n].new_songs_2025)
  /\ pc = "calculate_global_stats"
       => /\ {leader_stats[n].name : n \in DOMAIN leader_stats}
               = {services[i].praise_leader : i \in YearServices}
          /\ Len(leader_stats) = Cardinality({services[i].praise_leader : i \in YearServices})

\* The scenario of the claim: three services of a leader of the year, each
\* with "Grace" in praise1, and the key of "Grace" in the baseline.
C19_Witness ==
  \E n \in DOMAIN leader_stats :
    /\ leader_stats[n].total_services = 3
    /\ <<Grace, 3>> \in Elements(leader_stats[n].praise1_top20)
    /\ normalize_for_comparison(Grace) \in historical_songs_set
    /\ Grace \notin Elements(leader_stats[n].new_songs_2025)

\* The statistics of the leaders computed from given services.
LeaderStatsOf(list, historical, md) ==
  CHOOSE result \in {ListFrom([n \in DOMAIN groups |->
                                 LeaderStats(groups[n], groups, historical, md)]) :
                       groups \in {GroupByLeader(<<>>, list)}} :
    TRUE

StatisticsDone == pc = "statistics done"

\* C21: no step of calculate_leader_stats, calculate_global_stats,
\* calculate_new_song_usage_stats and calculate_publisher_stats changes the
\* services sequence (its order, its records, their song lists), the
\* historical baseline set or the metadata table, so that when the four have
\* run, the results of the first, the second and the last are those the
\* functions give on the services, the baseline and the table as they are
\* after the run of all four.
C21_StatisticsReadOnly ==
  /\ [][/\ services' = services
        /\ historical_songs_set' = historical_songs_set
        /\ metadata' = metadata]_vars
  /\ [](StatisticsDone =>
          /\ leader_stats
               = LeaderStatsOf(InYear(services, ReportYear), historical_songs_set, metadata)
          /\ global_stats = GlobalStats(InYear(services, ReportYear), historical_songs_set)
          /\ publisher_stats = PublisherStats(InYear(services, ReportYear), metadata))

\* The four functions have run on services that are not in the order of
\* their dates, some of an earlier year, and have found publishers.
C21_Witness ==
  /\ StatisticsDone
  /\ SortedByDate(services) # services
  /\ InYear(services, ReportYear) # services
  /\ publisher_stats.top20_publishers # <<>>
  /\ Len(leader_stats) > 1

-----------------------------------------------------------------------------
(* SpecOverlap: calculate_leader_stats over services of up to five leaders *)
(* with few songs each, some in common.                                    *)

MaxLeaderServices == 4

Dan == <<"D", "a", "n">>

\* One service for each of four leaders of the year, such that a leader has
\* songs in common with three others, two of them with as many, and two
\* leaders have none in common; and a service of the year before.
OverlapMenu ==
  { ServiceRecord(<<2025, 2, 1>>, Amy, <<>>, SongsFromTo(1, 3), <<>>, <<SongNumber(1)>>),
    ServiceRecord(<<2025, 2, 2>>, Ben, <<>>, <<SongNumber(1)>>, <<>>, <<>>),
    ServiceRecord(<<2025, 2, 8>>, Cat, <<>>, <<SongNumber(2)>>, <<SongNumber(3)>>, <<>>),
    ServiceRecord(<<2025, 2, 9>>, Dan, <<>>, <<>>, <<SongNumber(3)>>, <<SongNumber(2), SongNumber(4)>>),
    ServiceRecord(<<2024, 2, 3>>, Ben, <<>>, SongsFromTo(2, 4), <<>>, <<>>) }

InitOverlap ==
  /\ pc = "calculate_leader_stats"
  /\ services \in SeqsUpTo(OverlapMenu, MaxLeaderServices)
  /\ historical_songs_set = {} /\ metadata = <<>>
  /\ reader = <<>> /\ rows = <<>> /\ row_i = 0 /\ current_row = <<>>
  /\ consolidated = <<>> /\ load_i = 0
  /\ song_name = <<>> /\ copyright = None
  /\ year_services = <<>>
  /\ leader_services = <<>>
  /\ leader_stats = <<>>
  /\ global_stats = None
  /\ IdleWalk
  /\ new_song_usage_stats = <<>>
  /\ publisher_stats = None
  /\ IdleClean /\ IdleCompare /\ IdleSplit

NextOverlap == GroupServices \/ LeaderLoop \/ LeaderReturn

SpecOverlap == InitOverlap /\ [][NextOverlap]_vars

\* The song set of a leader: the songs of all slots of the leader's services
\* of the report year.
SongSet(leader) == UNION {Elements(services[i].all_songs) : i \in ServicesOf(leader)}

Overlap(leader, other) == Cardinality(SongSet(leader) \cap SongSet(other))

\* The leaders of the report year, each with the position of the first of
\* its services.
YearLeaders == {services[i].praise_leader : i \in YearServices}

FirstServiceOf(leader) == Least(ServicesOf(leader))

\* A leader ranks before another among the leaders similar to a given one:
\* more songs in common, or as many and encountered first.
MoreSimilar(leader, a, b) ==
  \/ Overlap(leader, a) > Overlap(leader, b)
  \/ Overlap(leader, a) = Overlap(leader, b) /\ FirstServiceOf(a) < FirstServiceOf(b)

\* C24: top2_leaders_overlap of a leader lists at most 2 other leaders of the
\* year, each once, with the number of songs the two song sets have in
\* common, which is not zero; by that number, descending, leaders with as
\* many in first-encountered order; and every other leader with a song in
\* common that is not listed ranks after all the listed ones, of which there
\* are then 2.
C24_Top2SimilarLeaders ==
  InLeaderLoop => \A n \in DOMAIN leader_stats :
    \A leader \in {leader_stats[n].name} : \A top2 \in {leader_stats[n].top2_leaders_overlap} :
      /\ Len(top2) <= Top2
      /\ \A m \in DOMAIN top2 :
           /\ top2[m][1] \in YearLeaders \ {leader}
           /\ top2[m][2] = Overlap(leader, top2[m][1])
           /\ top2[m][2] > 0
      /\ \A l, m \in DOMAIN top2 : l < m => MoreSimilar(leader, top2[l][1], top2[m][1])
      /\ \A other \in YearLeaders \ ({leader} \cup Listed(top2)) :
           Overlap(leader, other) > 0 =>
             /\ Len(top2) = Top2
             /\ \A m \in DOMAIN top2 : MoreSimilar(leader, top2[m][1], other)

\* C24 witness: a leader with songs in common with three others, of which
\* the two listed have as many and were not the first encountered, and a
\* leader with no song in common with another leader of the year.
C24_Witness ==
  /\ InLeaderLoop
  /\ \E n \in DOMAIN leader_stats :
       /\ Cardinality({other \in YearLeaders : Overlap(leader_stats[n].name, other) > 0}) = 4
       /\ Len(leader_stats[n].top2_leaders_overlap) = 2
       /\ leader_stats[n].top2_leaders_overlap[1][2] = leader_stats[n].top2_leaders_overlap[2][2]
       /\ \E other \in YearLeaders \ Listed(leader_stats[n].top2_leaders_overlap) :
            /\ other # leader_stats[n].name
            /\ FirstServiceOf(other) < FirstServiceOf(leader_stats[n].top2_leaders_overlap[1][1])
  /\ \E n \in DOMAIN leader_stats : \E other \in YearLeaders \ {leader_stats[n].name} :
       Overlap(leader_stats[n].name, other) = 0

-----------------------------------------------------------------------------
(* Claims on split_combined_songs.                                         *)

\* C25 (as claimed): every fragment split_combined_songs returns is text of
\* one '+'- or '/'-delimited fragment of the cell as given, where the trimmed,
\* marker-stripped text of a fragment is a part of the fragment: the step
\* that strips the communion marker and splits leaves only parts from which
\* the filter loop returns such fragments.
C25_NoFusedFragments ==
  [][(pc = "split_combined_songs" /\ pc' = "filter") =>
       \A returned \in Range(FilterParts(parts')) :
         \E fragment \in Range(SplitOnDelimiters(song_text)) :
           Contains(fragment, returned)]_vars

-----------------------------------------------------------------------------
(* Claims on the publishers.                                               *)

\* The song of a praise occurrence <<service, slot, position>>.
SongAt(occurrence) == services[occurrence[1]][occurrence[2]][occurrence[3]]

\* Every song of a set of occurrences with its owner in the metadata table,
\* the normalized songs of the table computed once.
OwnerPairs(occurrences) ==
  UNION {{<<name, MappedWith(name, metadata, keys)>> :
            name \in {SongAt(occurrence) : occurrence \in occurrences}} :
           keys \in {MetadataKeys(metadata)}}

\* The occurrences whose song has a given owner (None: no owner).
OwnedBy(occurrences, pairs, owner) ==
  {occurrence \in occurrences : <<SongAt(occurrence), owner>> \in pairs}

\* The owner an entry of publisher_percentages stands for.
OwnerOfRow(row) == IF row[1] = Unmatched THEN None ELSE row[1]

RECURSIVE SumOfCounts(_, _)
SumOfCounts(list, pos) ==
  IF list = <<>> THEN 0 ELSE Head(list)[pos] + SumOfCounts(Tail(list), pos)

\* C27: for every leader the counts of the entries of publisher_percentages
\* sum to the number of praise1 and praise2 occurrences of the leader; the
\* entries have different names, and the count of each is the number of the
\* leader's praise occurrences whose song has that owner (no owner for the
\* unmatched entry), which is not zero: a peace occurrence is counted nowhere
\* and a praise occurrence once.
C27_LeaderPublisherConservation ==
  InLeaderLoop => \A n \in DOMAIN leader_stats :
    \A occurrences \in {PraiseOccurrences(leader_stats[n].name)} :
      \A result \in {leader_stats[n].publisher_percentages} :
        /\ SumOfCounts(result, 3) = Cardinality(occurrences)
        /\ \A l, m \in DOMAIN result : l # m => result[l][1] # result[m][1]
        /\ \A pairs \in {OwnerPairs(occurrences)} : \A m \in DOMAIN result :
             /\ result[m][3] = Cardinality(OwnedBy(occurrences, pairs, OwnerOfRow(result[m])))
             /\ result[m][3] > 0

\* C27 witness: a leader with entries for two publishers and the unmatched
\* entry, and with a peace song of a third publisher that has no entry.
C27_Witness ==
  /\ InLeaderLoop
  /\ \E n \in DOMAIN leader_stats :
       /\ Len(leader_stats[n].publisher_percentages) = 3
       /\ leader_stats[n].publisher_percentages[3][1] = Unmatched
       /\ \E i \in ServicesOf(leader_stats[n].name) : \E j \in DOMAIN services[i].peace :
            /\ map_song_to_copyright(services[i].peace[j], metadata) # None
            /\ map_song_to_copyright(services[i].peace[j], metadata)
                 \notin Listed(leader_stats[n].publisher_percentages)

\* C28 (as claimed): every publisher of top20_publishers is in all_publishers
\* with the same count, and the counts of all_publishers and of
\* unmatched_songs sum to the number of praise1 and praise2 occurrences of the
\* report year.
C28_AllPublishersComplete ==
  StatisticsDone =>
    /\ \A n \in DOMAIN publisher_stats.top20_publishers :
         \E m \in DOMAIN publisher_stats.all_publishers :
           /\ publisher_stats.all_publishers[m][1] = publisher_stats.top20_publishers[n][1]
           /\ publisher_stats.all_publishers[m][2] = publisher_stats.top20_publishers[n][2]
    /\ SumOfCounts(publisher_stats.all_publishers, 2)
         + SumOfCounts(publisher_stats.unmatched_songs, 2)
         = Cardinality(UNION {PraiseOccurrences(leader) : leader \in YearLeaders})

-----------------------------------------------------------------------------
(* Claims on the buckets of the new-song usage.                            *)

\* The weekday a weekday bucket walks.
WeekdayOf(bucket) == IF bucket = "saturday" THEN Saturday ELSE Sunday

\* The position in the sorted services of the year of the k-th service of a
\* weekday.
PositionInYear(weekday, k) ==
  SelectSeq([i \in DOMAIN year_services |-> i],
            LAMBDA i : year_services[i].weekday = weekday)[k]

\* The services of the sorted services of the year that introduce a new
\* song in the walk of all of them.
IntroducingCombined ==
  UNION {Introducing(new_keys, Len(year_services)) : new_keys \in {NewKeys(year_services)}}

UsageReturned == pc = "calculate_publisher_stats"

\* C29: when the walk of the Saturday (Sunday) bucket visits a service that
\* introduces a new song in the walk of all services, it counts the service;
\* in the result, the totals of the two weekday buckets together do not
\* exceed the combined total, and when every service of the year falls on a
\* Saturday or a Sunday the combined count of services with new songs is at
\* most the sum of the counts of the two weekday buckets.
C29_BucketConsistency ==
  /\ [][(pc \in {"saturday", "sunday"} /\ walk_i' = walk_i + 1
           /\ PositionInYear(WeekdayOf(pc), walk_i + 1) \in IntroducingCombined)
          => worships_with_new' = worships_with_new + 1]_vars
  /\ [](UsageReturned =>
          /\ Get(new_song_usage_stats, "saturday").total_worships
               + Get(new_song_usage_stats, "sunday").total_worships
               <= Get(new_song_usage_stats, "combined").total_worships
          /\ (\A i \in YearServices : services[i].weekday \in {Saturday, Sunday})
               => Get(new_song_usage_stats, "combined").worships_with_new_songs
                    <= Get(new_song_usage_stats, "saturday").worships_with_new_songs
                         + Get(new_song_usage_stats, "sunday").worships_with_new_songs)

\* C29 witness: every service of the year fell on a Saturday or a Sunday, of
\* each there was one, and both buckets and the combined walk counted
\* services with new songs.
C29_Witness ==
  /\ UsageReturned
  /\ \A i \in YearServices : services[i].weekday \in {Saturday, Sunday}
  /\ Get(new_song_usage_stats, "saturday").worships_with_new_songs > 0
  /\ Get(new_song_usage_stats, "sunday").worships_with_new_songs > 0
  /\ Get(new_song_usage_stats, "combined").worships_with_new_songs
       = Get(new_song_usage_stats, "saturday").worships_with_new_songs
           + Get(new_song_usage_stats, "sunday").worships_with_new_songs

-----------------------------------------------------------------------------
(* Claims on the agreement of the statistics.                              *)

RECURSIVE TotalServices(_)
TotalServices(stats) ==
  IF stats = <<>> THEN 0 ELSE Head(stats).total_services + TotalServices(Tail(stats))

\* C30: when calculate_leader_stats and calculate_global_stats have run over
\* the same services and baseline, the new songs of all leaders together are
\* the global new songs, the global new songs are among the unique songs of
\* the year, and the services of all leaders together are as many as the
\* services of the report year.
C30_LeaderAndGlobalAgree ==
  GlobalStatsReturned =>
    /\ UNION {Elements(leader_stats[n].new_songs_2025) : n \in DOMAIN leader_stats}
         = Elements(global_stats.new_songs_2025)
    /\ Elements(global_stats.new_songs_2025) \subseteq Elements(global_stats.unique_songs_2025)
    /\ TotalServices(leader_stats) = Cardinality(YearServices)

\* C30 witness: two leaders with different new songs, a song of the year
\* that is not new, and a service of another year.
C30_Witness ==
  /\ GlobalStatsReturned
  /\ \E m, n \in DOMAIN leader_stats :
       /\ leader_stats[m].new_songs_2025 # <<>>
       /\ leader_stats[n].new_songs_2025 # <<>>
       /\ leader_stats[m].new_songs_2025 # leader_stats[n].new_songs_2025
  /\ Elements(global_stats.new_songs_2025) # Elements(global_stats.unique_songs_2025)
  /\ global_stats.new_songs_2025 # <<>>
  /\ Cardinality(YearServices) < Len(services)

====
